---------------------------- MODULE Spec2Model ----------------------------
(***************************************************************************)
(* Real-time project chat of the collaboration backend:                    *)
(* routers/chat.py (ConnectionManager, websocket_endpoint).                *)
(*                                                                         *)
(* One asyncio task runs per accepted connection.  Tasks interleave only   *)
(* at await points, so every action below is the code between two          *)
(* consecutive awaits of one task, ending with the effect of the await it  *)
(* stops at (a frame received, a frame sent, a row committed).             *)
(***************************************************************************)
EXTENDS Integers, Sequences, FiniteSets, TLC

(***************************************************************************)
(* Bounds of the model.                                                    *)
(***************************************************************************)
\* frames read (or idle timeouts taken) by the read loops of all sessions
MaxFrames == 1

\* pings and idle timeouts of the read loops when the clients send no content
MaxBeats == 2

\* rows of MessageModel when get_messages is called on a table as found
MaxRows == 3

\* content frames the one talking client sends while messages are deleted
MaxPosts == 1

\* rows of the direct message table
MaxDMs == 2

\* content frames one client sends in a row while another session listens
MaxTalk == 2

\* frames the direct message clients send
MaxDMFrames == 1
\* the websockets the server accepts while the two managers are called
MaxSockets == 3

\* the connections the server accepts; each is one WebSocket object
Sessions == {"s1", "s2"}

\* the HTTP requests in flight (delete_message, mark_messages_as_read)
Requests == {"r1", "r2"}

\* the asyncio tasks: one per websocket connection, one per HTTP request
Tasks == Sessions \cup Requests

\* the direct message websocket connections
DMSockets == {"d1", "d2"}
Users == {"u1", "u2"}
Projects == {"p1", "p2"}

\* the clients that go on sending frames once they are connected
Talkers == {"s1"}

\* the membership rows the environment may delete
Removable == {<<"p1", "u2">>}

\* rows of ProjectMemberModel when the server starts
InitMembers == {<<"p1", "u1">>, <<"p1", "u2">>, <<"p2", "u1">>}

None == "None"

(***************************************************************************)
(* Message content.  A string is kept as <<lead, body, trail>>: the number *)
(* of leading whitespace characters, the length of the part from the first *)
(* to the last non-whitespace character, and the number of trailing        *)
(* whitespace characters (a whitespace-only string has body = trail = 0).  *)
(***************************************************************************)
MaxContentLen == 5000

len(c) == c[1] + c[2] + c[3]

\* str.strip()
strip(c) == <<0, c[2], 0>>

\* `len(message_content) > 5000`
\* a length check made after the trim
too_long_stripped(c) == len(strip(c)) > MaxContentLen

too_long(c) == len(c) > MaxContentLen

\* `not message_content`: "" is falsy (and so is the None of a frame that
\* has no "content" key, which RecvOther models)
falsy(c) == len(c) = 0

NoContent == <<0, 0, 0>>

\* the content fields a client puts in a frame
Contents ==
    { <<0, 0, 0>>,                       \* ""
      <<2, 0, 0>>,                       \* "  "
      <<1, MaxContentLen - 2, 1>>,       \* 5000 characters, 4998 after strip
      <<1, MaxContentLen - 1, 1>> }      \* 5001 characters, 4999 after strip

(***************************************************************************)
(* Tokens of the first frame.  jwt.decode raises JWTError for a token that *)
(* is not a JWS, whose signature does not verify or whose exp is past;     *)
(* otherwise it returns the payload.                                       *)
(***************************************************************************)
NoSub == "NoSub"
BadSub == "not-a-uuid"

Token(form, sig, exp, sub) == [form |-> form, sig |-> sig, exp |-> exp, sub |-> sub]

Tokens ==
    { Token(FALSE, TRUE, FALSE, "u1"),        \* malformed encoding
      Token(TRUE, FALSE, FALSE, "u1"),        \* signature mismatch
      Token(TRUE, TRUE, TRUE, "u1"),          \* expired
      Token(TRUE, TRUE, FALSE, NoSub),        \* no "sub" claim
      Token(TRUE, TRUE, FALSE, BadSub) }      \* sub is no UUID
    \cup { Token(TRUE, TRUE, FALSE, u) : u \in Users }

\* the tokens the auth service issued; users being interchangeable, s1 is
\* taken to be u1's connection when only valid tokens are presented
ValidTokens(s) ==
    { Token(TRUE, TRUE, FALSE, u) : u \in IF s = "s1" THEN {"u1"} ELSE Users }

JWTError == "JWTError"
KeyError == "KeyError"
ValueError == "ValueError"

Raised(exc) == [exc |-> exc, sub |-> NoSub]
Returned(sub) == [exc |-> None, sub |-> sub]

\* a decode that does not look at the exp claim
jwt_decode_no_exp(tok) ==
    IF ~tok.form THEN Raised(JWTError)
    ELSE IF ~tok.sig THEN Raised(JWTError)
    ELSE Returned(tok.sub)

\* jwt.decode(token, SECRET_KEY, algorithms=[ALGORITHM]): the payload, or
\* the exception raised
jwt_decode(tok) ==
    IF ~tok.form THEN Raised(JWTError)
    ELSE IF ~tok.sig THEN Raised(JWTError)
    ELSE IF tok.exp THEN Raised(JWTError)
    ELSE Returned(tok.sub)

\* UUID(payload["sub"])
payload_user(payload) ==
    IF payload.sub = NoSub THEN Raised(KeyError)
    ELSE IF payload.sub = BadSub THEN Raised(ValueError)
    ELSE Returned(payload.sub)

\* the try block of the handshake: the user id, or the exception raised
verify_token(tok) ==
    IF jwt_decode(tok).exc # None THEN jwt_decode(tok)
    ELSE payload_user(jwt_decode(tok))

\* an except clause that leaves KeyError out
caught_invalid_no_key(exc) == exc \in {JWTError, ValueError}

\* except (JWTError, ValueError, KeyError)
caught_invalid(exc) == exc \in {JWTError, ValueError, KeyError}

(***************************************************************************)
(* Frames the server sends.                                                *)
(***************************************************************************)
Frame(type, user, online, id, content, text) ==
    [type |-> type, user |-> user, online |-> online, id |-> id,
     content |-> content, text |-> text]

ErrorFrame(text) == Frame("error", None, <<>>, 0, NoContent, text)
ConnectedFrame(online) == Frame("connected", None, online, 0, NoContent, "")
UserJoinedFrame(u, online) == Frame("user_joined", u, online, 0, NoContent, "")
UserLeftFrame(u, online) == Frame("user_left", u, online, 0, NoContent, "")
MessageFrame(m) == Frame("message", m.sender_id, <<>>, m.id, m.content, "")
MessageDeletedFrame(id) == Frame("message_deleted", None, <<>>, id, NoContent, "")
MessagesReadFrame(reader, count) ==
    Frame("messages_read", reader, <<>>, count, NoContent, "")
PongFrame == Frame("pong", None, <<>>, 0, NoContent, "")
PingFrame == Frame("ping", None, <<>>, 0, NoContent, "")

ErrTokenRequired == ErrorFrame("Token required")
ErrInvalidToken == ErrorFrame("Invalid token")
ErrNotMember == ErrorFrame("Not a member of this project")
ErrTooLong == ErrorFrame("Message too long (max 5000 characters)")
ErrTimeout == ErrorFrame("Connection timeout")
ErrInternal == ErrorFrame("Internal error")

(***************************************************************************)
(* ConnectionManager: active_connections is a dict from project id to a    *)
(* list of (websocket, user_id).  A dict is a function whose DOMAIN is its *)
(* key set.                                                                *)
(***************************************************************************)
DictDel(d, k) == [q \in DOMAIN d \ {k} |-> d[q]]
DictSet(d, k, v) == [q \in DOMAIN d \cup {k} |-> IF q = k THEN v ELSE d[q]]

\* a connect that rebinds the key instead of appending to its list
ConnectOverwrite(ac, p, ws, uid) == DictSet(ac, p, <<<<ws, uid>>>>)

\* ConnectionManager.connect
Connect(ac, p, ws, uid) ==
    IF p \notin DOMAIN ac
    THEN DictSet(ac, p, <<<<ws, uid>>>>)
    ELSE DictSet(ac, p, Append(ac[p], <<ws, uid>>))

\* a comprehension that filters by user id: it drops every connection of
\* the user whose websocket is removed
KeepOtherUsers(l, ws) ==
    LET gone == {l[i][2] : i \in {j \in 1..Len(l) : l[j][1] = ws}}
        keep(e) == e[2] \notin gone
    IN SelectSeq(l, keep)

\* [(ws, uid) for ws, uid in self.active_connections[project_id] if ws != websocket]
KeepOthers(l, ws) ==
    LET keep(e) == e[1] # ws IN SelectSeq(l, keep)

\* ConnectionManager.disconnect
Disconnect(ac, p, ws) ==
    IF p \in DOMAIN ac
    THEN IF KeepOthers(ac[p], ws) = <<>>
         THEN DictDel(ac, p)
         ELSE DictSet(ac, p, KeepOthers(ac[p], ws))
    ELSE ac

\* ConnectionManager.get_connected_users
GetConnectedUsers(ac, p) ==
    IF p \in DOMAIN ac THEN [i \in 1..Len(ac[p]) |-> ac[p][i][2]] ELSE <<>>

\* `for ws in disconnected: self.disconnect(project_id, ws)`
RECURSIVE DisconnectAll(_, _, _)
DisconnectAll(ac, p, wss) ==
    IF wss = <<>> THEN ac
    ELSE DisconnectAll(Disconnect(ac, p, Head(wss)), p, Tail(wss))

\* a disconnect that leaves the key with its empty list in the dict
DMDisconnectKeepKey(ac, u, ws) ==
    LET keep(e) == e # ws IN
    IF u \in DOMAIN ac THEN DictSet(ac, u, SelectSeq(ac[u], keep)) ELSE ac

\* DMConnectionManager.connect: the dict is from user id to a list of sockets
DMConnect(ac, u, ws) ==
    IF u \notin DOMAIN ac
    THEN DictSet(ac, u, <<ws>>)
    ELSE DictSet(ac, u, Append(ac[u], ws))

\* DMConnectionManager.disconnect
DMDisconnect(ac, u, ws) ==
    LET keep(e) == e # ws IN
    IF u \in DOMAIN ac
    THEN IF SelectSeq(ac[u], keep) = <<>>
         THEN DictDel(ac, u)
         ELSE DictSet(ac, u, SelectSeq(ac[u], keep))
    ELSE ac

\* `for ws in disconnected: self.disconnect(user_id, ws)`
RECURSIVE DMDisconnectAll(_, _, _)
DMDisconnectAll(ac, u, wss) ==
    IF wss = <<>> THEN ac
    ELSE DMDisconnectAll(DMDisconnect(ac, u, Head(wss)), u, Tail(wss))

Handles(ac, p) == IF p \in DOMAIN ac THEN {ac[p][i][1] : i \in 1..Len(ac[p])} ELSE {}

(***************************************************************************)
(* State.                                                                  *)
(***************************************************************************)
VARIABLES
    project,            \* the project_id of each session's URL
    active_connections, \* manager.active_connections
    members,            \* rows of ProjectMemberModel: <<project, user>>
    messages,           \* rows of MessageModel, in insertion order
    pc,                 \* where each session's task is suspended
    connected,          \* the local `connected` of each session
    user_id,            \* the local `user_id` of each session
    online_users,       \* the local `online_users` of each session
    frames,             \* iterations the read loops may still make
    transport,          \* "open", "client_closed" or "server_closed"
    message,            \* the local `message` of each session: its id, or 0
    outbox,             \* the frames each client has been sent, in order
    bc,                 \* the manager.broadcast call each session is inside
    token,              \* history: the token each session presented
    checked,            \* history: what the membership query of each found
    removed,            \* history: the call that took each handle out
    calls,              \* history: the broadcast calls each session made
    received,           \* history: what the last wait_for of a read loop gave
    dms,                \* rows of DirectMessageModel, in insertion order
    req,                \* the locals of each HTTP request's handler
    response,           \* the last response of get_messages, and its request
    dm_connections,     \* dm_manager.active_connections
    dm_sessions,        \* the locals and position of each direct message session
    pages,              \* the pages a client paging backward has been given
    call                \* history: the last call of connect or disconnect

vars == <<project, active_connections, members, messages, pc, connected, user_id,
          online_users, frames, transport, message, outbox, bc, token,
          checked, removed, calls, received, dms, req, response,
          dm_connections, dm_sessions, pages, call>>

NoToken == Token(FALSE, FALSE, FALSE, NoSub)

\* a call manager.op(key, ws) or dm_manager.op(key, ws)
Call(manager, op, key, ws) == [manager |-> manager, op |-> op, key |-> key, ws |-> ws]

NoCall == Call("", "", None, 0)

\* the outcome of `await asyncio.wait_for(websocket.receive_json(), 60.0)`
\* in session s: a ping frame, a content frame, or TimeoutError
Received(s, kind, c) == [session |-> s, kind |-> kind, content |-> c]

NoFrame == Received(None, "none", NoContent)

\* the locals of a request handler: current_user, the id in the URL, the
\* rows the SELECT returned, `now`, and the status of the response (0: none)
Request(user, id, rows, now, status) ==
    [user |-> user, id |-> id, rows |-> rows, now |-> now, status |-> status]

NoRequest == Request(None, 0, {}, 0, 0)

\* a response of get_messages with the request it answers and, as history,
\* the table it was computed from
Response(user, p, limit, before, status, rows, seen) ==
    [user |-> user, project |-> p, limit |-> limit, before |-> before,
     status |-> status, rows |-> rows, seen |-> seen]

NoResponse == Response(None, None, 0, 0, 0, <<>>, <<>>)

\* the locals of a direct message session: where its task is suspended,
\* `user_id` and `connected`, whether its client is still there, the frames
\* its client was sent, and the send_to_user call it is inside: the user,
\* the frame, where the session goes on afterwards, the list the loop
\* iterates, whether the dict still holds that list, the index of the next
\* entry and the sockets whose send raised
NoDMSession ==
    [pc |-> "accepted", user_id |-> None, connected |-> FALSE, open |-> TRUE,
     got |-> <<>>, to |-> None, msg |-> "", cont |-> "loop", list |-> <<>>,
     aliased |-> FALSE, idx |-> 1, disconnected |-> <<>>]

\* no broadcast in progress
IdleBc ==
    [run |-> FALSE, topic |-> None, msg |-> PingFrame, list |-> <<>>, idx |-> 1,
     aliased |-> FALSE, disconnected |-> <<>>, cont |-> None,
     snapshot |-> <<>>, tried |-> <<>>]

\* websocket_endpoint(websocket, project_id)
project_id(s) == project[s]

\* the tables of a fresh database: the memberships, no messages
EmptyTables ==
    /\ members = InitMembers
    /\ messages = <<>>
    /\ dms = <<>>

\* the state once the connections are accepted and no request has begun
Accepted ==
    /\ active_connections = [p \in {} |-> <<>>]
    /\ pc = [t \in Tasks |-> IF t \in Sessions THEN "accepted" ELSE "idle"]
    /\ connected = [s \in Sessions |-> FALSE]
    /\ user_id = [s \in Sessions |-> None]
    /\ online_users = [s \in Sessions |-> <<>>]
    /\ transport = [s \in Sessions |-> "open"]
    /\ message = [s \in Sessions |-> 0]
    /\ outbox = [s \in Sessions |-> <<>>]
    /\ bc = [t \in Tasks |-> IdleBc]
    /\ token = [s \in Sessions |-> NoToken]
    /\ checked = [s \in Sessions |-> "no"]
    /\ removed = [s \in Sessions |-> "no"]
    /\ calls = [t \in Tasks |-> <<>>]
    /\ received = NoFrame
    /\ req = [r \in Requests |-> NoRequest]
    /\ response = NoResponse
    /\ dm_connections = [u \in {} |-> <<>>]
    /\ dm_sessions = [d \in DMSockets |-> NoDMSession]
    /\ pages = <<>>
    /\ call = NoCall

\* both connections are to project p1
Init ==
    /\ project = [s \in Sessions |-> "p1"]
    /\ frames = MaxFrames
    /\ Accepted
    /\ EmptyTables

\* s2 connects to either project
InitAuth ==
    /\ project \in {[s1 |-> "p1", s2 |-> p] : p \in Projects}
    /\ frames = MaxFrames
    /\ Accepted
    /\ EmptyTables

\* both connections are to project p1; the clients will send pings only
InitHeartbeat ==
    /\ project = [s \in Sessions |-> "p1"]
    /\ frames = MaxBeats
    /\ Accepted
    /\ EmptyTables

(***************************************************************************)
(* manager.broadcast.  The for loop iterates the list object that          *)
(* active_connections[project_id] held when the loop began: connect        *)
(* appends to that object (the iterator sees the new entry), disconnect    *)
(* rebinds the key to a new list (the iterator keeps the old one).         *)
(* bc[s].aliased says the dict still holds the list bc[s] iterates.        *)
(***************************************************************************)
\* a send on t's socket succeeds while the socket is open and the endpoint
\* has not returned
CanSend(t) == transport[t] = "open" /\ pc[t] # "closed"

NewBc(ac, p, msg, cont) ==
    [run |-> TRUE, topic |-> p, msg |-> msg, list |-> ac[p], idx |-> 1,
     aliased |-> TRUE, disconnected |-> <<>>, cont |-> cont,
     snapshot |-> ac[p], tried |-> <<>>]

\* a loop body that sends again to a socket whose send raised
AfterSendRetry(b) ==
    LET ws == b.list[b.idx][1] IN
    [b EXCEPT !.idx = IF CanSend(ws) THEN @ + 1 ELSE @,
              !.tried = Append(@, ws),
              !.disconnected = IF CanSend(ws) THEN @ ELSE Append(@, ws)]

\* a loop body without the try: the first send that raises ends the loop
AfterSendAbort(b) ==
    LET ws == b.list[b.idx][1] IN
    [b EXCEPT !.idx = IF CanSend(ws) THEN @ + 1 ELSE Len(b.list) + 1,
              !.tried = Append(@, ws),
              !.disconnected = IF CanSend(ws) THEN @ ELSE Append(@, ws)]

\* a loop body that remembers every socket, whether its send raised or not
AfterSendPruneAll(b) ==
    LET ws == b.list[b.idx][1] IN
    [b EXCEPT !.idx = @ + 1,
              !.tried = Append(@, ws),
              !.disconnected = Append(@, ws)]

\* one pass of the loop body: send_json to the next entry, and on an
\* exception remember the socket
AfterSend(b) ==
    LET ws == b.list[b.idx][1] IN
    [b EXCEPT !.idx = @ + 1,
              !.tried = Append(@, ws),
              !.disconnected = IF CanSend(ws) THEN @ ELSE Append(@, ws)]

Deliver(ob, b) ==
    LET ws == b.list[b.idx][1] IN
    IF CanSend(ws) THEN [ob EXCEPT ![ws] = Append(@, b.msg)] ELSE ob

\* connect(p, ...) seen by the broadcasts that iterate p's list object
AliasAppend(bcs, p, entry) ==
    [t \in Tasks |->
        IF bcs[t].run /\ bcs[t].topic = p /\ bcs[t].aliased
        THEN [bcs[t] EXCEPT !.list = Append(@, entry)]
        ELSE bcs[t]]

\* disconnect(p, ...) rebinds p: no broadcast iterates the dict's list now
Unalias(bcs, ac, p) ==
    [t \in Tasks |->
        IF p \in DOMAIN ac /\ bcs[t].run /\ bcs[t].topic = p
        THEN [bcs[t] EXCEPT !.aliased = FALSE]
        ELSE bcs[t]]

\* task t calls manager.broadcast(p, msg) with the registry ac and runs it
\* up to its first send; cont is where t goes on afterwards
Broadcast(t, p, ac, bcs, msg, cont) ==
    /\ calls' = [calls EXCEPT ![t] = Append(@, msg)]
    /\ IF p \in DOMAIN ac /\ ac[p] # <<>>
       THEN LET b == NewBc(ac, p, msg, cont) IN
            /\ bc' = [bcs EXCEPT ![t] = AfterSend(b)]
            /\ outbox' = Deliver(outbox, b)
            /\ pc' = [pc EXCEPT ![t] = "bc"]
       ELSE /\ bc' = bcs
            /\ outbox' = outbox
            /\ pc' = [pc EXCEPT ![t] = cont]

\* session s calls manager.broadcast(str(project_id), msg)
BeginBroadcast(s, ac, bcs, msg, cont) ==
    Broadcast(s, project_id(s), ac, bcs, msg, cont)

\* the loop resumes after a send and sends to the next entry
BroadcastSend(s) ==
    /\ pc[s] = "bc"
    /\ bc[s].idx <= Len(bc[s].list)
    /\ bc' = [bc EXCEPT ![s] = AfterSend(@)]
    /\ outbox' = Deliver(outbox, bc[s])
    /\ UNCHANGED <<project, dms, call, pages, dm_connections, dm_sessions, req, response, received, active_connections, members, messages, pc,
                   connected, user_id,
                   online_users, frames, transport, message, token, checked,
                   removed, calls>>

\* the loop is exhausted: drop the sockets whose send raised, return
BroadcastFinish(s) ==
    /\ pc[s] = "bc"
    /\ bc[s].idx > Len(bc[s].list)
    /\ active_connections' =
           DisconnectAll(active_connections, bc[s].topic, bc[s].disconnected)
    /\ bc' = [IF bc[s].disconnected # <<>>
              THEN Unalias(bc, active_connections, bc[s].topic)
              ELSE bc EXCEPT ![s] = IdleBc]
    /\ pc' = [pc EXCEPT ![s] = bc[s].cont]
    /\ removed' = [t \in Sessions |->
                     IF /\ t \in Handles(active_connections, bc[s].topic)
                        /\ \E i \in 1..Len(bc[s].disconnected) : bc[s].disconnected[i] = t
                     THEN "pruned"
                     ELSE removed[t]]
    /\ UNCHANGED <<project, dms, call, pages, dm_connections, dm_sessions, req, response, received, members, messages, connected, user_id, online_users,
                   frames, transport, message, outbox, token, checked, calls>>

(***************************************************************************)
(* websocket_endpoint: the handshake.                                      *)
(***************************************************************************)
\* send the error frame and close; when the client is gone the send raises,
\* `except Exception` tries "Internal error" (which raises too and is
\* swallowed), and `finally` finds connected = False
Reject(s, frame, alive) ==
    /\ pc' = [pc EXCEPT ![s] = "closed"]
    /\ IF alive
       THEN /\ outbox' = [outbox EXCEPT ![s] = Append(@, frame)]
            /\ transport' = [transport EXCEPT ![s] = "server_closed"]
       ELSE /\ outbox' = outbox
            /\ transport' = [transport EXCEPT ![s] = "client_closed"]

\* the first frame has no token
HandshakeNoToken(s, alive) ==
    /\ pc[s] = "accepted"
    /\ transport[s] = "open"
    /\ Reject(s, ErrTokenRequired, alive)
    /\ UNCHANGED <<project, dms, call, pages, dm_connections, dm_sessions, req, response, received, active_connections, members, messages, connected,
                   user_id,
                   online_users, frames, message, bc, token, checked,
                   removed, calls>>

\* a query without the project_id condition
has_row_any_project(mem, p, u) == \E q \in Projects : <<q, u>> \in mem

\* the JOIN query on ProjectMemberModel finds a row
has_row(mem, p, u) == <<p, u>> \in mem

\* an exception the inner handler does not catch reaches `except Exception`:
\* best-effort "Internal error" frame, no close, endpoint returns
Uncaught(s, alive) ==
    /\ pc' = [pc EXCEPT ![s] = "closed"]
    /\ outbox' = IF alive THEN [outbox EXCEPT ![s] = Append(@, ErrInternal)]
                 ELSE outbox
    /\ transport' = IF alive THEN transport
                    ELSE [transport EXCEPT ![s] = "client_closed"]

\* the first frame carries tok: verify it, then look the membership up
Handshake(s, tok, alive) ==
    /\ pc[s] = "accepted"
    /\ transport[s] = "open"
    /\ token' = [token EXCEPT ![s] = tok]
    /\ LET r == verify_token(tok) IN
       IF caught_invalid(r.exc)
       THEN /\ Reject(s, ErrInvalidToken, alive)
            /\ UNCHANGED <<user_id, checked>>
       ELSE IF r.exc # None
       THEN /\ Uncaught(s, alive)
            /\ UNCHANGED <<user_id, checked>>
       ELSE /\ user_id' = [user_id EXCEPT ![s] = r.sub]
            /\ checked' = [checked EXCEPT ![s] =
                               IF <<project_id(s), r.sub>> \in members
                               THEN "member" ELSE "not_member"]
            /\ IF ~has_row(members, project_id(s), r.sub)
               THEN Reject(s, ErrNotMember, alive)
               ELSE /\ pc' = [pc EXCEPT ![s] = "register"]
                    /\ UNCHANGED <<outbox, transport>>
    /\ UNCHANGED <<project, dms, call, pages, dm_connections, dm_sessions, req, response, received, active_connections, members, messages, connected,
                   online_users, frames, message, bc, removed, calls>>

\* a wait for the first frame without a timeout: it never expires
HandshakeNoTimeout(s, alive) ==
    /\ pc[s] = "accepted"
    /\ transport[s] = "open"
    /\ UNCHANGED vars

\* no first frame within 10 s: `except asyncio.TimeoutError`
HandshakeTimeout(s, alive) ==
    /\ pc[s] = "accepted"
    /\ transport[s] = "open"
    /\ Reject(s, ErrTimeout, alive)
    /\ UNCHANGED <<project, dms, call, pages, dm_connections, dm_sessions, req, response, received, active_connections, members, messages, connected,
                   user_id,
                   online_users, frames, message, bc, token, checked,
                   removed, calls>>

\* the client closes before its first frame: `except WebSocketDisconnect`
HandshakeDisconnect(s) ==
    /\ pc[s] = "accepted"
    /\ transport[s] # "open"
    /\ pc' = [pc EXCEPT ![s] = "closed"]
    /\ UNCHANGED <<project, dms, call, pages, dm_connections, dm_sessions, req, response, received, active_connections, members, messages, connected,
                   user_id,
                   online_users, frames, transport, message, outbox, bc, token,
                   checked, removed, calls>>

\* a handshake that reads the online list before it registers the handle
RegisterStale(s) ==
    /\ pc[s] = "register"
    /\ LET p == project_id(s)
           ac == Connect(active_connections, p, s, user_id[s])
           online == GetConnectedUsers(active_connections, p)
       IN /\ active_connections' = ac
          /\ bc' = AliasAppend(bc, p, <<s, user_id[s]>>)
          /\ connected' = [connected EXCEPT ![s] = TRUE]
          /\ online_users' = [online_users EXCEPT ![s] = online]
          /\ IF transport[s] = "open"
             THEN /\ outbox' = [outbox EXCEPT ![s] = Append(@, ConnectedFrame(online))]
                  /\ pc' = [pc EXCEPT ![s] = "join"]
             ELSE /\ outbox' = outbox
                  /\ pc' = [pc EXCEPT ![s] = "finally"]
    /\ UNCHANGED <<project, dms, call, pages, dm_connections, dm_sessions, req, response, received, members, messages, user_id, frames, transport,
                   message, token,
                   checked, removed, calls>>

\* manager.connect, connected = True, the `connected` frame
Register(s) ==
    /\ pc[s] = "register"
    /\ LET p == project_id(s)
           ac == Connect(active_connections, p, s, user_id[s])
           online == GetConnectedUsers(ac, p)
       IN /\ active_connections' = ac
          /\ bc' = AliasAppend(bc, p, <<s, user_id[s]>>)
          /\ connected' = [connected EXCEPT ![s] = TRUE]
          /\ online_users' = [online_users EXCEPT ![s] = online]
          /\ IF transport[s] = "open"
             THEN /\ outbox' = [outbox EXCEPT ![s] = Append(@, ConnectedFrame(online))]
                  /\ pc' = [pc EXCEPT ![s] = "join"]
             ELSE /\ outbox' = outbox
                  /\ pc' = [pc EXCEPT ![s] = "finally"]
    /\ UNCHANGED <<project, dms, call, pages, dm_connections, dm_sessions, req, response, received, members, messages, user_id, frames, transport,
                   message, token,
                   checked, removed, calls>>

\* manager.broadcast(user_joined)
JoinBroadcast(s) ==
    /\ pc[s] = "join"
    /\ BeginBroadcast(s, active_connections, bc,
                      UserJoinedFrame(user_id[s], online_users[s]), "loop")
    /\ UNCHANGED <<project, dms, call, pages, dm_connections, dm_sessions, req, response, received, active_connections, members, messages, connected,
                   user_id,
                   online_users, frames, transport, message, token, checked,
                   removed>>

(***************************************************************************)
(* websocket_endpoint: the read loop.                                      *)
(***************************************************************************)
\* reply to the frame just read on the session's own socket; when the
\* client is gone the send raises and the session unwinds
Reply(s, frame, alive) ==
    IF alive
    THEN /\ outbox' = [outbox EXCEPT ![s] = Append(@, frame)]
         /\ UNCHANGED <<pc, transport>>
    ELSE /\ outbox' = outbox
         /\ transport' = [transport EXCEPT ![s] = "client_closed"]
         /\ pc' = [pc EXCEPT ![s] = "finally"]

\* a read loop that does not wait for its broadcast to return
CanReadEarly(s) ==
    /\ pc[s] \in {"loop", "bc"}
    /\ transport[s] = "open"
    /\ frames > 0

\* the loop is at `await asyncio.wait_for(websocket.receive_json(), 60.0)`
CanRead(s) ==
    /\ pc[s] = "loop"
    /\ transport[s] = "open"
    /\ frames > 0

\* a ping answered with a ping
RecvPingEcho(s, alive) ==
    /\ CanRead(s)
    /\ frames' = frames - 1
    /\ received' = Received(s, "ping", NoContent)
    /\ Reply(s, PingFrame, alive)
    /\ UNCHANGED <<project, dms, call, pages, dm_connections, dm_sessions, req, response, active_connections, members, messages, connected,
                   user_id,
                   online_users, message, bc, token, checked, removed, calls>>

\* {"type": "ping"}
RecvPing(s, alive) ==
    /\ CanRead(s)
    /\ frames' = frames - 1
    /\ received' = Received(s, "ping", NoContent)
    /\ Reply(s, PongFrame, alive)
    /\ UNCHANGED <<project, dms, call, pages, dm_connections, dm_sessions, req, response, active_connections, members, messages, connected,
                   user_id,
                   online_users, message, bc, token, checked, removed, calls>>

\* sent_at of the row written last, 0 when there is none
LastSentAt(msgs) == IF msgs = <<>> THEN 0 ELSE msgs[Len(msgs)].sent_at

\* the sent_at a new row may get: the clock has moved on since the last row
\* was written, or it has not (two rows may bear the same timestamp)
SentAts(msgs) ==
    IF msgs = <<>> THEN {1} ELSE {LastSentAt(msgs), LastSentAt(msgs) + 1}

\* the id a new row gets: greater than the id of every earlier row
NextId(msgs) == Len(msgs) + 1

\* the row stored with the content as the client sent it
NewMessageRaw(s, c, t) ==
    [id |-> NextId(messages), project_id |-> project_id(s),
     sender_id |-> user_id[s], content |-> c, sent_at |-> t,
     is_deleted |-> FALSE]

\* MessageModel(project_id, sender_id, content) after commit and refresh
NewMessage(s, c, t) ==
    [id |-> NextId(messages), project_id |-> project_id(s),
     sender_id |-> user_id[s], content |-> strip(c), sent_at |-> t,
     is_deleted |-> FALSE]

\* the loop body for a frame {"content": c}: validate, then commit the row
\* (the commit may fail)
ContentFrame(s, c, alive, commit_ok) ==
    /\ frames' = frames - 1
    /\ received' = Received(s, "content", c)
    /\ IF falsy(c)
       THEN UNCHANGED <<messages, message, outbox, pc, transport>>
       ELSE IF too_long(c)
       THEN /\ Reply(s, ErrTooLong, alive)
            /\ UNCHANGED <<messages, message>>
       ELSE IF commit_ok
       THEN /\ \E t \in SentAts(messages) :
                  messages' = Append(messages, NewMessage(s, c, t))
            /\ message' = [message EXCEPT ![s] = Len(messages) + 1]
            /\ pc' = [pc EXCEPT ![s] = "msg_bc"]
            /\ UNCHANGED <<outbox, transport>>
       ELSE /\ pc' = [pc EXCEPT ![s] = "fault"]
            /\ UNCHANGED <<messages, message, outbox, transport>>
    /\ UNCHANGED <<project, dms, call, pages, dm_connections, dm_sessions, req, response, active_connections, members, connected, user_id,
                   online_users, bc, token, checked, removed, calls>>

\* {"content": c} is read from a connected client
RecvContent(s, c, alive, commit_ok) ==
    /\ CanRead(s)
    /\ ContentFrame(s, c, alive, commit_ok)

\* {"content": c} arrived before the client closed the connection and is
\* still in the receive queue: receive_json returns it, and only the next
\* call raises WebSocketDisconnect; a reply to it would raise
RecvBuffered(s, c, commit_ok) ==
    /\ pc[s] = "loop"
    /\ transport[s] = "client_closed"
    /\ frames > 0
    /\ ContentFrame(s, c, FALSE, commit_ok)

\* a broadcast of the message that is made a second time
MessageBroadcastTwice(s) ==
    /\ pc[s] = "msg_bc"
    /\ BeginBroadcast(s, active_connections, bc,
                      MessageFrame(messages[message[s]]),
                      IF \E i \in 1..Len(calls[s]) : calls[s][i].type = "message"
                      THEN "loop" ELSE "msg_bc")
    /\ UNCHANGED <<project, dms, call, pages, dm_connections, dm_sessions, req, response, received, active_connections,
                   members, messages, connected, user_id, online_users, frames,
                   transport, message, token, checked, removed>>

\* manager.broadcast(message) after db.refresh
MessageBroadcast(s) ==
    /\ pc[s] = "msg_bc"
    /\ BeginBroadcast(s, active_connections, bc,
                      MessageFrame(messages[message[s]]), "loop")
    /\ UNCHANGED <<project, dms, call, pages, dm_connections, dm_sessions, req, response, received, active_connections, members, messages, connected,
                   user_id,
                   online_users, frames, transport, message, token, checked,
                   removed>>

\* an idle timeout that ends the session as the handshake timeout does
IdleTimeoutClose(s, alive) ==
    /\ CanRead(s)
    /\ frames' = frames - 1
    /\ received' = Received(s, "timeout", NoContent)
    /\ outbox' = IF alive THEN [outbox EXCEPT ![s] = Append(@, ErrTimeout)] ELSE outbox
    /\ transport' = [transport EXCEPT ![s] = IF alive THEN "server_closed"
                                              ELSE "client_closed"]
    /\ pc' = [pc EXCEPT ![s] = "finally"]
    /\ UNCHANGED <<project, dms, call, pages, dm_connections, dm_sessions, req, response, active_connections, members, messages, connected,
                   user_id,
                   online_users, message, bc, token, checked, removed, calls>>

\* no frame within 60 s: the inner `except asyncio.TimeoutError` sends a ping
IdleTimeout(s, alive) ==
    /\ CanRead(s)
    /\ frames' = frames - 1
    /\ received' = Received(s, "timeout", NoContent)
    /\ Reply(s, PingFrame, alive)
    /\ UNCHANGED <<project, dms, call, pages, dm_connections, dm_sessions, req, response, active_connections, members, messages, connected,
                   user_id,
                   online_users, message, bc, token, checked, removed, calls>>

\* receive_json raises WebSocketDisconnect
LoopDisconnect(s) ==
    /\ pc[s] = "loop"
    /\ transport[s] # "open"
    /\ pc' = [pc EXCEPT ![s] = "finally"]
    /\ UNCHANGED <<project, dms, call, pages, dm_connections, dm_sessions, req, response, received, active_connections, members, messages, connected,
                   user_id,
                   online_users, frames, transport, message, outbox, bc, token,
                   checked, removed, calls>>

(***************************************************************************)
(* websocket_endpoint: the handlers of the outer try.                      *)
(***************************************************************************)
\* `except Exception`: best-effort "Internal error" frame
Fault(s) ==
    /\ pc[s] = "fault"
    /\ outbox' = IF transport[s] = "open"
                 THEN [outbox EXCEPT ![s] = Append(@, ErrInternal)]
                 ELSE outbox
    /\ pc' = [pc EXCEPT ![s] = "finally"]
    /\ UNCHANGED <<project, dms, call, pages, dm_connections, dm_sessions, req, response, received, active_connections, members, messages, connected,
                   user_id,
                   online_users, frames, transport, message, bc, token,
                   checked, removed, calls>>

\* a `finally` that reads the online list before it disconnects
FinallyStale(s) ==
    /\ pc[s] = "finally"
    /\ IF connected[s]
       THEN LET p == project_id(s)
                ac == Disconnect(active_connections, p, s)
            IN /\ active_connections' = ac
               /\ BeginBroadcast(s, ac, Unalias(bc, active_connections, p),
                       UserLeftFrame(user_id[s],
                                     GetConnectedUsers(active_connections, p)),
                       "closed")
       ELSE /\ pc' = [pc EXCEPT ![s] = "closed"]
            /\ UNCHANGED <<active_connections, outbox, bc, calls>>
    /\ removed' = IF connected[s] /\ s \in Handles(active_connections, project_id(s))
                  THEN [removed EXCEPT ![s] = "finally"]
                  ELSE removed
    /\ UNCHANGED <<project, dms, call, pages, dm_connections, dm_sessions, req, response, received, members, messages, connected, user_id, online_users,
                   frames, transport, message, token, checked>>

\* `finally`: if connected, disconnect and broadcast user_left
Finally(s) ==
    /\ pc[s] = "finally"
    /\ IF connected[s]
       THEN LET p == project_id(s)
                ac == Disconnect(active_connections, p, s)
            IN /\ active_connections' = ac
               /\ BeginBroadcast(s, ac, Unalias(bc, active_connections, p),
                       UserLeftFrame(user_id[s], GetConnectedUsers(ac, p)),
                       "closed")
       ELSE /\ pc' = [pc EXCEPT ![s] = "closed"]
            /\ UNCHANGED <<active_connections, outbox, bc, calls>>
    /\ removed' = IF connected[s] /\ s \in Handles(active_connections, project_id(s))
                  THEN [removed EXCEPT ![s] = "finally"]
                  ELSE removed
    /\ UNCHANGED <<project, dms, call, pages, dm_connections, dm_sessions, req, response, received, members, messages, connected, user_id, online_users,
                   frames, transport, message, token, checked>>

(***************************************************************************)
(* get_messages.  A message id is the number of its row; before_id is 0    *)
(* when the request has no cursor.                                         *)
(***************************************************************************)
\* "[Message deleted]"
Marker == <<0, 17, 0>>

\* MessageResponse(...) of a row
MessageResponse(m) ==
    [id |-> m.id, project_id |-> m.project_id, sender_id |-> m.sender_id,
     content |-> IF ~m.is_deleted THEN m.content ELSE Marker,
     sent_at |-> m.sent_at, is_deleted |-> m.is_deleted]

\* a membership query without the project_id condition
is_member_anywhere(mem, p, u) == \E q \in Projects : <<q, u>> \in mem

\* select(ProjectMemberModel).where(project_id, user_id) finds a row
is_member(mem, p, u) == <<p, u>> \in mem

\* select(MessageModel.sent_at).where(id == before_id).scalar_one_or_none();
\* 0 for None
before_timestamp(msgs, before_id) ==
    IF before_id \in 1..Len(msgs) THEN msgs[before_id].sent_at ELSE 0

\* the rows the WHERE clauses of stmt keep
Selected(msgs, p, before_id) ==
    {i \in 1..Len(msgs) :
        /\ msgs[i].project_id = p
        /\ (before_id # 0 /\ before_timestamp(msgs, before_id) # 0)
           => msgs[i].sent_at < before_timestamp(msgs, before_id)}

\* the rows of sel that no row of sel is newer than
Newest(msgs, sel) ==
    {e \in sel : \A f \in sel : msgs[f].sent_at <= msgs[e].sent_at}

\* the first k rows of sel, newest first: each next row is one of the newest
\* that are left; among rows of equal sent_at the database takes any
RECURSIVE Top(_, _, _)
Top(msgs, sel, k) ==
    IF k = 0 \/ sel = {} THEN {<<>>}
    ELSE UNION {{<<e>> \o q : q \in Top(msgs, sel \ {e}, k - 1)} :
                   e \in Newest(msgs, sel)}

\* order_by(sent_at.desc()).limit(limit): the row numbers the database may
\* return
Rows(msgs, p, limit, before_id) == Top(msgs, Selected(msgs, p, before_id), limit)

\* the rows in the order the database gave them
unreversed(q) == q

\* reversed(rows)
reversed(q) == [i \in 1..Len(q) |-> q[Len(q) + 1 - i]]

\* GET /chat/messages/{project_id}?limit=&before_id= by user u; what the
\* client does with the response (pages) is the caller's
GetMessages(u, p, limit, before_id) ==
    /\ IF ~is_member(members, p, u)
       THEN response' = Response(u, p, limit, before_id, 403, <<>>, messages)
       ELSE \E q \in Rows(messages, p, limit, before_id) :
               response' = Response(u, p, limit, before_id, 200,
                   [i \in 1..Len(q) |-> MessageResponse(messages[reversed(q)[i]])],
                   messages)
    /\ UNCHANGED <<project, active_connections, members, messages, pc, connected,
                   user_id, online_users, frames, transport, message, outbox,
                   bc, token, checked, removed, calls, received, dms, call, dm_connections, dm_sessions, req>>

(***************************************************************************)
(* delete_message.  The handler is suspended in the SELECT, in the commit  *)
(* and in the sends of the broadcast; other tasks run meanwhile.           *)
(***************************************************************************)
\* raise HTTPException(status, ...)
Raise(r, u, id, status) ==
    /\ req' = [req EXCEPT ![r] = Request(u, id, {}, 0, status)]
    /\ pc' = [pc EXCEPT ![r] = "done"]

\* DELETE /chat/message/{id} by user u: the SELECT and the three checks
DeleteRead(r, u, id) ==
    /\ pc[r] = "idle"
    /\ IF id \notin 1..Len(messages) THEN Raise(r, u, id, 404)
       ELSE IF messages[id].sender_id # u THEN Raise(r, u, id, 403)
       ELSE IF messages[id].is_deleted THEN Raise(r, u, id, 400)
       ELSE /\ req' = [req EXCEPT ![r] = Request(u, id, {id}, 0, 0)]
            /\ pc' = [pc EXCEPT ![r] = "commit"]
    /\ UNCHANGED <<project, active_connections, members, messages, connected,
                   user_id, online_users, frames, transport, message, outbox,
                   bc, token, checked, removed, calls, received, dms, call, pages, dm_connections, dm_sessions, response>>

\* message.is_deleted = True; commit; the message_deleted broadcast begins
DeleteCommit(r) ==
    /\ pc[r] = "commit"
    /\ messages' = [messages EXCEPT ![req[r].id].is_deleted = TRUE]
    /\ Broadcast(r, messages[req[r].id].project_id, active_connections, bc,
                 MessageDeletedFrame(req[r].id), "return")
    /\ UNCHANGED <<project, active_connections, members, connected, user_id,
                   online_users, frames, transport, message, token, checked,
                   removed, received, dms, call, pages, dm_connections, dm_sessions, req, response>>

\* return {"message": "Message deleted"}
DeleteReturn(r) ==
    /\ pc[r] = "return"
    /\ req' = [req EXCEPT ![r].status = 200]
    /\ pc' = [pc EXCEPT ![r] = "done"]
    /\ UNCHANGED <<project, active_connections, members, messages, connected,
                   user_id, online_users, frames, transport, message, outbox,
                   bc, token, checked, removed, calls, received, dms, call, pages, dm_connections, dm_sessions, response>>

(***************************************************************************)
(* mark_messages_as_read.  The handler is suspended in the SELECT and in   *)
(* the commit.  No direct message socket is connected, so send_to_user     *)
(* finds no entry for the other user and returns without sending.  In a    *)
(* request of this handler, `id` holds the path parameter other_user_id.   *)
(* A read_at of 0 is NULL.                                                 *)
(***************************************************************************)
Max(S) == CHOOSE x \in S : \A y \in S : y <= x

\* the latest time any request has seen or any row bears
Clock ==
    Max({1} \cup {dms[i].read_at : i \in 1..Len(dms)}
            \cup {req[r].now : r \in Requests})

\* datetime.now(timezone.utc): the clock has moved on, or it has not
Nows == {Clock, Clock + 1}

\* the rows from `other` to u with read_at IS NULL
Unread(u, other) ==
    {i \in 1..Len(dms) : /\ dms[i].sender_id = other
                         /\ dms[i].receiver_id = u
                         /\ dms[i].read_at = 0}

\* for msg in unread_messages: msg.read_at = now; flushed by the commit
SetReadAt(rows, now) ==
    [i \in 1..Len(dms) |->
        IF i \in rows THEN [dms[i] EXCEPT !.read_at = now] ELSE dms[i]]

\* POST /mark-read/{other} by user u: the SELECT, then now is taken
MarkSelect(r, u, other) ==
    /\ pc[r] = "idle"
    /\ \E now \in Nows : req' = [req EXCEPT ![r] = Request(u, other, Unread(u, other), now, 0)]
    /\ pc' = [pc EXCEPT ![r] = "marked"]
    /\ UNCHANGED <<project, active_connections, members, messages, connected,
                   user_id, online_users, frames, transport, message, outbox,
                   bc, token, checked, removed, calls, received, dms, call, pages, dm_connections, dm_sessions, response>>

\* commit; send_to_user(other, messages_read); return
MarkCommit(r) ==
    /\ pc[r] = "marked"
    /\ dms' = SetReadAt(req[r].rows, req[r].now)
    /\ calls' = [calls EXCEPT ![r] =
                    Append(@, MessagesReadFrame(req[r].user, Cardinality(req[r].rows)))]
    /\ req' = [req EXCEPT ![r].status = 200]
    /\ pc' = [pc EXCEPT ![r] = "done"]
    /\ UNCHANGED <<pages, call, project, active_connections, members, messages, connected,
                   user_id, online_users, frames, transport, message, outbox,
                   bc, token, checked, removed, received, response,
                   dm_connections, dm_sessions>>

(***************************************************************************)
(* dm_websocket_endpoint and DMConnectionManager.send_to_user.  A frame    *)
(* sent to a client is recorded by its type.  send_to_user iterates the    *)
(* list object of the dict as broadcast does: connect appends to it,       *)
(* disconnect rebinds the key.                                             *)
(***************************************************************************)
\* a send on ws's socket succeeds while its client is there and its
\* endpoint has not returned
DMCanSend(ss, ws) == ss[ws].open /\ ss[ws].pc # "closed"

\* `await websocket.send_json(...)` on the session's own socket: when the
\* client is gone it raises and the session unwinds to `finally`
DMReply(x, type, cont) ==
    IF x.open THEN [x EXCEPT !.got = Append(@, type), !.pc = cont]
    ELSE [x EXCEPT !.pc = "finally"]

\* the first frame: no token or an invalid one is answered with an error
\* frame and a close; a valid one sets user_id and the profile is read
DMHandshake(d, valid, u) ==
    /\ dm_sessions[d].pc = "accepted"
    /\ dm_sessions[d].open
    /\ dm_sessions' = [dm_sessions EXCEPT ![d] =
           IF valid THEN [@ EXCEPT !.user_id = u, !.pc = "connect"]
           ELSE [@ EXCEPT !.got = Append(@, "error"), !.pc = "closed", !.open = FALSE]]
    /\ UNCHANGED <<project, active_connections, members, messages, pc, connected,
                   user_id, online_users, frames, transport, message, outbox, bc,
                   token, checked, removed, calls, received, dms, call, pages, req, response,
                   dm_connections>>

\* no first frame within 10 s, or the client has gone: the endpoint returns
DMHandshakeEnds(d) ==
    /\ dm_sessions[d].pc = "accepted"
    /\ dm_sessions' = [dm_sessions EXCEPT ![d].pc = "closed"]
    /\ UNCHANGED <<project, active_connections, members, messages, pc, connected,
                   user_id, online_users, frames, transport, message, outbox, bc,
                   token, checked, removed, calls, received, dms, call, pages, req, response,
                   dm_connections>>

\* the send_to_user calls that iterate u's list object see the new entry
DMAliasAppend(ss, u, ws) ==
    [e \in DMSockets |->
        IF ss[e].pc = "send" /\ ss[e].to = u /\ ss[e].aliased
        THEN [ss[e] EXCEPT !.list = Append(@, ws)]
        ELSE ss[e]]

\* disconnect(u, ...) rebinds u: no send_to_user iterates the dict's list now
DMUnalias(ss, ac, u) ==
    [e \in DMSockets |->
        IF u \in DOMAIN ac /\ ss[e].pc = "send" /\ ss[e].to = u
        THEN [ss[e] EXCEPT !.aliased = FALSE]
        ELSE ss[e]]

\* dm_manager.connect, connected = True, the `connected` frame
DMRegister(d) ==
    /\ dm_sessions[d].pc = "connect"
    /\ dm_connections' = DMConnect(dm_connections, dm_sessions[d].user_id, d)
    /\ dm_sessions' =
          [DMAliasAppend(dm_sessions, dm_sessions[d].user_id, d) EXCEPT ![d] =
              DMReply([@ EXCEPT !.connected = TRUE], "connected", "loop")]
    /\ UNCHANGED <<project, active_connections, members, messages, pc, connected,
                   user_id, online_users, frames, transport, message, outbox, bc,
                   token, checked, removed, calls, received, dms, call, pages, req, response>>

\* the loop is at wait_for(receive_json) and a frame can be read
DMCanRead(d) ==
    /\ dm_sessions[d].pc = "loop"
    /\ dm_sessions[d].open
    /\ frames > 0

\* a ping frame (reply "pong") or the 60 s timeout (reply "ping")
DMHeartbeat(d, type) ==
    /\ DMCanRead(d)
    /\ frames' = frames - 1
    /\ dm_sessions' = [dm_sessions EXCEPT ![d] = DMReply(@, type, "loop")]
    /\ UNCHANGED <<project, active_connections, members, messages, pc, connected,
                   user_id, online_users, transport, message, outbox, bc,
                   token, checked, removed, calls, received, dms, call, pages, req, response,
                   dm_connections>>

\* one pass of the loop body of send_to_user in session d: send_json to
\* the next entry, and on an exception remember the socket
DMSendNext(ss, d) ==
    LET ws == ss[d].list[ss[d].idx]
        sent == IF DMCanSend(ss, ws)
                THEN [ss EXCEPT ![ws].got = Append(@, ss[d].msg)] ELSE ss
    IN [sent EXCEPT ![d].idx = @ + 1,
                    ![d].disconnected = IF DMCanSend(ss, ws) THEN @
                                        ELSE Append(@, ws)]

\* a typing frame (cont "loop") or a message frame (cont "confirm") for
\* user `to`: send_to_user(to, ...) runs up to its first send
DMSendToUser(d, to, type, cont) ==
    /\ DMCanRead(d)
    /\ frames' = frames - 1
    /\ dm_sessions' =
          IF to \in DOMAIN dm_connections
          THEN DMSendNext([dm_sessions EXCEPT ![d] =
                   [@ EXCEPT !.pc = "send", !.to = to, !.msg = type,
                             !.cont = cont, !.list = dm_connections[to],
                             !.aliased = TRUE, !.idx = 1,
                             !.disconnected = <<>>]], d)
          ELSE [dm_sessions EXCEPT ![d] =
                   IF cont = "loop" THEN @ ELSE DMReply(@, "sent", "loop")]
    /\ UNCHANGED <<project, active_connections, members, messages, pc, connected,
                   user_id, online_users, transport, message, outbox, bc,
                   token, checked, removed, calls, received, dms, call, pages, req, response,
                   dm_connections>>

\* the loop of send_to_user resumes after a send and sends to the next entry
DMSendStep(d) ==
    /\ dm_sessions[d].pc = "send"
    /\ dm_sessions[d].idx <= Len(dm_sessions[d].list)
    /\ dm_sessions' = DMSendNext(dm_sessions, d)
    /\ UNCHANGED <<project, active_connections, members, messages, pc, connected,
                   user_id, online_users, frames, transport, message, outbox, bc,
                   token, checked, removed, calls, received, dms, call, pages, req, response,
                   dm_connections>>

\* the loop is exhausted: drop the sockets whose send raised; after a
\* typing frame the read loop continues, after a message frame the sender
\* is sent the `sent` confirmation
DMSendFinish(d) ==
    /\ dm_sessions[d].pc = "send"
    /\ dm_sessions[d].idx > Len(dm_sessions[d].list)
    /\ dm_connections' = DMDisconnectAll(dm_connections, dm_sessions[d].to,
                                         dm_sessions[d].disconnected)
    /\ dm_sessions' =
          [IF dm_sessions[d].disconnected # <<>>
           THEN DMUnalias(dm_sessions, dm_connections, dm_sessions[d].to)
           ELSE dm_sessions EXCEPT ![d] =
              LET x == [dm_sessions[d] EXCEPT !.to = None, !.msg = "", !.list = <<>>,
                                              !.aliased = FALSE, !.idx = 1,
                                              !.disconnected = <<>>, !.cont = "loop"]
              IN IF dm_sessions[d].cont = "loop" THEN [x EXCEPT !.pc = "loop"]
                 ELSE DMReply(x, "sent", "loop")]
    /\ UNCHANGED <<project, active_connections, members, messages, pc, connected,
                   user_id, online_users, frames, transport, message, outbox, bc,
                   token, checked, removed, calls, received, dms, call, pages, req, response>>

\* the client closes its end of the connection
DMClientClose(d) ==
    /\ dm_sessions[d].pc # "closed"
    /\ dm_sessions[d].open
    /\ dm_sessions' = [dm_sessions EXCEPT ![d].open = FALSE]
    /\ UNCHANGED <<project, active_connections, members, messages, pc, connected,
                   user_id, online_users, frames, transport, message, outbox, bc,
                   token, checked, removed, calls, received, dms, call, pages, req, response,
                   dm_connections>>

\* receive_json raises WebSocketDisconnect
DMLoopDisconnect(d) ==
    /\ dm_sessions[d].pc = "loop"
    /\ ~dm_sessions[d].open
    /\ dm_sessions' = [dm_sessions EXCEPT ![d].pc = "finally"]
    /\ UNCHANGED <<project, active_connections, members, messages, pc, connected,
                   user_id, online_users, frames, transport, message, outbox, bc,
                   token, checked, removed, calls, received, dms, call, pages, req, response,
                   dm_connections>>

\* `finally`: if connected, dm_manager.disconnect(user_id, websocket)
DMFinally(d) ==
    /\ dm_sessions[d].pc = "finally"
    /\ dm_connections' =
          IF dm_sessions[d].connected
          THEN DMDisconnect(dm_connections, dm_sessions[d].user_id, d)
          ELSE dm_connections
    /\ dm_sessions' =
          [IF dm_sessions[d].connected
           THEN DMUnalias(dm_sessions, dm_connections, dm_sessions[d].user_id)
           ELSE dm_sessions EXCEPT ![d].pc = "closed"]
    /\ UNCHANGED <<project, active_connections, members, messages, pc, connected,
                   user_id, online_users, frames, transport, message, outbox, bc,
                   token, checked, removed, calls, received, dms, call, pages, req, response>>

(***************************************************************************)
(* The environment.                                                        *)
(***************************************************************************)
\* the client closes its end of the connection
ClientClose(s) ==
    /\ pc[s] # "closed"
    /\ transport[s] = "open"
    /\ transport' = [transport EXCEPT ![s] = "client_closed"]
    /\ UNCHANGED <<project, dms, call, pages, dm_connections, dm_sessions, req, response, received, active_connections, members, messages, pc,
                   connected, user_id,
                   online_users, frames, message, outbox, bc, token, checked,
                   removed, calls>>

\* a membership row is deleted (a member leaves or is removed)
RemoveMember(p, u) ==
    /\ <<p, u>> \in members
    /\ members' = members \ {<<p, u>>}
    /\ UNCHANGED <<project, dms, call, pages, dm_connections, dm_sessions, req, response, received, active_connections, messages, pc, connected, user_id,
                   online_users, frames, transport, message, outbox, bc, token,
                   checked, removed, calls>>

\* what every session does whatever frames it is sent
Lifecycle ==
    \/ \E s \in Sessions : HandshakeDisconnect(s)
    \/ \E s \in Sessions : Register(s)
    \/ \E s \in Sessions : JoinBroadcast(s)
    \/ \E s \in Sessions : BroadcastSend(s)
    \/ \E s \in Sessions : BroadcastFinish(s)
    \/ \E s \in Sessions : LoopDisconnect(s)
    \/ \E s \in Sessions : Finally(s)
    \/ \E s \in Sessions : ClientClose(s)

\* the chat: members connect with valid tokens and the talkers send frames
Next ==
    \/ \E s \in Sessions : \E tok \in ValidTokens(s) : Handshake(s, tok, TRUE)
    \/ Lifecycle
    \/ \E s \in Talkers, alive \in BOOLEAN : RecvPing(s, alive)
    \/ \E s \in Talkers, c \in Contents, alive \in BOOLEAN, commit_ok \in BOOLEAN :
          RecvContent(s, c, alive, commit_ok)
    \/ \E s \in Sessions : MessageBroadcast(s)
    \/ \E s \in Talkers, alive \in BOOLEAN : IdleTimeout(s, alive)
    \/ \E s \in Sessions : Fault(s)

Spec == Init /\ [][Next]_vars

\* the handshake: any first frame, memberships that come and go
NextAuth ==
    \/ \E s \in Sessions, alive \in BOOLEAN : HandshakeNoToken(s, alive)
    \/ \E s \in Sessions, tok \in Tokens, alive \in BOOLEAN : Handshake(s, tok, alive)
    \/ \E s \in Sessions, alive \in BOOLEAN : HandshakeTimeout(s, alive)
    \/ Lifecycle
    \/ \E r \in Removable : RemoveMember(r[1], r[2])

SpecAuth == InitAuth /\ [][NextAuth]_vars

\* the wait for the first frame ends by itself: the 10 s timer of wait_for
\* fires, or the closed connection makes receive_json raise
WaitEnds(s) ==
    \/ \E alive \in BOOLEAN : HandshakeTimeout(s, alive)
    \/ HandshakeDisconnect(s)

\* the event loop runs what needs no client: the timer and the close event
\* of a waiting session, and manager.connect after the membership query;
\* no client is bound to ever send a frame
SpecAuthFair ==
    /\ SpecAuth
    /\ \A s \in Sessions : WF_vars(WaitEnds(s)) /\ WF_vars(Register(s))

\* the heartbeat: connected clients that ping or stay silent
NextHeartbeat ==
    \/ \E s \in Sessions : \E tok \in ValidTokens(s) : Handshake(s, tok, TRUE)
    \/ Lifecycle
    \/ \E s \in Talkers, alive \in BOOLEAN : RecvPing(s, alive)
    \/ \E s \in Talkers, alive \in BOOLEAN : IdleTimeout(s, alive)

SpecHeartbeat == InitHeartbeat /\ [][NextHeartbeat]_vars

\* the limits of the requests (the API takes 1 to 200): with up to MaxRows
\* rows of a topic, a limit that cuts rows off and one that may not
Limits == {1, 2}

\* the text of a post: 4998 characters between a space and a newline
Hello == <<1, MaxContentLen - 2, 1>>

\* the rows a session of u1 may add to a table
NextRows(msgs) ==
    {[id |-> Len(msgs) + 1, project_id |-> p, sender_id |-> "u1",
      content |-> strip(Hello), sent_at |-> t,
      is_deleted |-> d] : p \in Projects, t \in SentAts(msgs), d \in BOOLEAN}

\* the tables of n rows that sessions of u1 and delete requests leave
RECURSIVE TablesOfLen(_)
TablesOfLen(n) ==
    IF n = 0 THEN {<<>>}
    ELSE UNION {{Append(msgs, row) : row \in NextRows(msgs)} :
                   msgs \in TablesOfLen(n - 1)}

\* the history is read from a table as sessions have left it
InitQuery ==
    /\ project = [s \in Sessions |-> "p1"]
    /\ frames = 0
    /\ Accepted
    /\ members = InitMembers
    /\ messages \in UNION {TablesOfLen(n) : n \in 0..MaxRows}
    /\ dms = <<>>

\* the client makes its first request, or makes its last request again
Asks(u, p, limit, before_id) ==
    \/ response = NoResponse
    \/ /\ response.user = u /\ response.project = p
       /\ response.limit = limit /\ response.before = before_id

\* reading the history, once or again, while memberships come and go
NextQuery ==
    \/ \E u \in Users, p \in Projects, limit \in Limits :
          \E before_id \in 0..(Len(messages) + 1) :
             /\ Asks(u, p, limit, before_id)
             /\ GetMessages(u, p, limit, before_id)
             /\ UNCHANGED pages
    \/ \E r \in Removable : RemoveMember(r[1], r[2])

SpecQuery == InitQuery /\ [][NextQuery]_vars

\* the ids of a response, oldest first
Ids(rows) == [i \in 1..Len(rows) |-> rows[i].id]

\* the client asks for the next older page: the first call has no cursor,
\* every later one has before_id = the oldest message of the previous page;
\* an empty page ends the paging
NextPage(u, p, limit) ==
    /\ \/ pages = <<>>
       \/ /\ pages # <<>>
          /\ pages[Len(pages)] # <<>>
          /\ response.user = u /\ response.project = p
          /\ response.limit = limit
    /\ GetMessages(u, p, limit,
                   IF pages = <<>> THEN 0 ELSE pages[Len(pages)][1])
    /\ pages' = Append(pages, Ids(response'.rows))

\* member u1 pages backward through the history of p1; nothing is written
NextPaging == \E limit \in Limits : NextPage("u1", "p1", limit)

SpecPaging == InitQuery /\ [][NextPaging]_vars

\* the chat of p1 holds at most one earlier message; one connection, to p1,
\* whose client will send content frames
InitHistory ==
    /\ project = [s \in Sessions |-> "p1"]
    /\ frames = MaxPosts
    /\ Accepted
    /\ members = InitMembers
    /\ messages \in {m \in TablesOfLen(0) \cup TablesOfLen(1) :
                        \A i \in 1..Len(m) : /\ m[i].project_id = "p1"
                                             /\ ~m[i].is_deleted}
    /\ dms = <<>>

\* who sends request r: the sender of the messages sends both, somebody
\* else may send the first
Callers(r) == IF r = "r1" THEN Users ELSE {"u1"}

\* one member chats, messages are deleted and the history is read
NextHistory ==
    \/ \E s \in Talkers : \E tok \in ValidTokens(s) : Handshake(s, tok, TRUE)
    \/ \E s \in Talkers : Register(s)
    \/ \E s \in Talkers : JoinBroadcast(s)
    \/ \E t \in Talkers \cup Requests : BroadcastFinish(t)
    \/ \E s \in Talkers : RecvContent(s, Hello, TRUE, TRUE)
    \/ \E s \in Talkers : MessageBroadcast(s)
    \/ \E r \in Requests : \E u \in Callers(r), id \in 1..(Len(messages) + 1) :
          DeleteRead(r, u, id)
    \/ \E r \in Requests : DeleteCommit(r)
    \/ \E r \in Requests : DeleteReturn(r)
    \/ /\ Asks("u1", "p1", MaxPosts + 1, 0)
       /\ GetMessages("u1", "p1", MaxPosts + 1, 0)
       /\ UNCHANGED pages

SpecHistory == InitHistory /\ [][NextHistory]_vars

\* the rows a conversation of u1 and u2 may hold, unread or read at time 1
DMRows(id) ==
    {[id |-> id, sender_id |-> a, receiver_id |-> b, read_at |-> t] :
        a \in Users, b \in Users, t \in {0, 1}}

RECURSIVE DMTablesOfLen(_)
DMTablesOfLen(n) ==
    IF n = 0 THEN {<<>>}
    ELSE {Append(T, row) : T \in DMTablesOfLen(n - 1),
                           row \in {x \in DMRows(n) : x.sender_id # x.receiver_id}}

\* no connection; the direct message table holds up to MaxDMs rows
InitDM ==
    /\ project = [s \in Sessions |-> "p1"]
    /\ frames = 0
    /\ Accepted
    /\ members = InitMembers
    /\ messages = <<>>
    /\ dms \in UNION {DMTablesOfLen(n) : n \in 0..MaxDMs}

\* two mark-read requests, each by either user about the other
NextDM ==
    \/ \E r \in Requests, u \in Users : \E other \in Users \ {u} :
          MarkSelect(r, u, other)
    \/ \E r \in Requests : MarkCommit(r)

SpecDM == InitDM /\ [][NextDM]_vars

\* both connections are to p1; one client will send content frames
InitTalk ==
    /\ project = [s \in Sessions |-> "p1"]
    /\ frames = MaxTalk
    /\ Accepted
    /\ EmptyTables

\* one member talks, the other session listens; either may leave
NextTalk ==
    \/ \E s \in Sessions : \E tok \in ValidTokens(s) : Handshake(s, tok, TRUE)
    \/ Lifecycle
    \/ \E s \in Talkers : RecvContent(s, Hello, TRUE, TRUE)
    \/ \E s \in Talkers : MessageBroadcast(s)

SpecTalk == InitTalk /\ [][NextTalk]_vars

\* two project chat connections to p1 and two direct message connections
InitRegistry ==
    /\ project = [s \in Sessions |-> "p1"]
    /\ frames = MaxDMFrames
    /\ Accepted
    /\ EmptyTables

\* the direct message sessions: any user, any receiver, clients that leave
NextDMSessions ==
    \/ \E d \in DMSockets, valid \in BOOLEAN, u \in Users : DMHandshake(d, valid, u)
    \/ \E d \in DMSockets : DMHandshakeEnds(d)
    \/ \E d \in DMSockets : DMRegister(d)
    \/ \E d \in DMSockets, type \in {"pong", "ping", "error"} : DMHeartbeat(d, type)
    \/ \E d \in DMSockets, to \in Users : DMSendToUser(d, to, "typing", "loop")
    \/ \E d \in DMSockets, to \in Users : DMSendToUser(d, to, "message", "confirm")
    \/ \E d \in DMSockets : DMSendStep(d)
    \/ \E d \in DMSockets : DMSendFinish(d)
    \/ \E d \in DMSockets : DMClientClose(d)
    \/ \E d \in DMSockets : DMLoopDisconnect(d)
    \/ \E d \in DMSockets : DMFinally(d)

\* both registries: project chat sessions that join and leave, and the
\* direct message sessions
NextRegistry ==
    \/ \E s \in Talkers : \E tok \in ValidTokens(s) : Handshake(s, tok, TRUE)
    \/ \E s \in Talkers : Register(s)
    \/ \E s \in Talkers : JoinBroadcast(s)
    \/ \E s \in Talkers : BroadcastFinish(s)
    \/ \E s \in Talkers : LoopDisconnect(s)
    \/ \E s \in Talkers : Finally(s)
    \/ \E s \in Talkers : ClientClose(s)
    \/ NextDMSessions

SpecRegistry == InitRegistry /\ [][NextRegistry]_vars

\* the websockets the endpoints hand to the managers
Sockets == 1..MaxSockets

\* ws is in a list of the dict of one of the managers
Listed(ws) ==
    \/ \E p \in DOMAIN active_connections : ws \in Handles(active_connections, p)
    \/ \E u \in DOMAIN dm_connections :
          \E i \in 1..Len(dm_connections[u]) : dm_connections[u][i] = ws

\* await manager.connect(project_id, websocket, user_id): an endpoint
\* registers its websocket once
ManagerConnect(p, ws, uid) ==
    /\ ~Listed(ws)
    /\ active_connections' = Connect(active_connections, p, ws, uid)
    /\ call' = Call("manager", "connect", p, ws)
    /\ UNCHANGED <<project, members, messages, pc, connected, user_id,
                   online_users, frames, transport, message, outbox, bc, token,
                   checked, removed, calls, received, dms, req, response,
                   dm_connections, dm_sessions, pages>>

\* manager.disconnect(project_id, websocket): by the finally block of the
\* endpoint or by a broadcast that drops the socket, whichever comes first
\* removes it, so the other finds it (or its whole topic) gone
ManagerDisconnect(p, ws) ==
    /\ ws \in Handles(active_connections, p) \/ ~Listed(ws)
    /\ active_connections' = Disconnect(active_connections, p, ws)
    /\ call' = Call("manager", "disconnect", p, ws)
    /\ UNCHANGED <<project, members, messages, pc, connected, user_id,
                   online_users, frames, transport, message, outbox, bc, token,
                   checked, removed, calls, received, dms, req, response,
                   dm_connections, dm_sessions, pages>>

\* await dm_manager.connect(user_id, websocket)
DMManagerConnect(u, ws) ==
    /\ ~Listed(ws)
    /\ dm_connections' = DMConnect(dm_connections, u, ws)
    /\ call' = Call("dm_manager", "connect", u, ws)
    /\ UNCHANGED <<project, members, messages, pc, connected, user_id,
                   online_users, frames, transport, message, outbox, bc, token,
                   checked, removed, calls, received, dms, req, response,
                   active_connections, dm_sessions, pages>>

\* dm_manager.disconnect(user_id, websocket): by the finally block or by a
\* send_to_user that drops the socket
DMManagerDisconnect(u, ws) ==
    /\ \/ u \in DOMAIN dm_connections
          /\ \E i \in 1..Len(dm_connections[u]) : dm_connections[u][i] = ws
       \/ ~Listed(ws)
    /\ dm_connections' = DMDisconnect(dm_connections, u, ws)
    /\ call' = Call("dm_manager", "disconnect", u, ws)
    /\ UNCHANGED <<project, members, messages, pc, connected, user_id,
                   online_users, frames, transport, message, outbox, bc, token,
                   checked, removed, calls, received, dms, req, response,
                   active_connections, dm_sessions, pages>>

\* the two managers alone: websockets are registered and removed
NextManagers ==
    \/ \E p \in Projects, ws \in Sockets, uid \in Users : ManagerConnect(p, ws, uid)
    \/ \E p \in Projects, ws \in Sockets : ManagerDisconnect(p, ws)
    \/ \E u \in Users, ws \in Sockets : DMManagerConnect(u, ws)
    \/ \E u \in Users, ws \in Sockets : DMManagerDisconnect(u, ws)

SpecManagers == Init /\ [][NextManagers]_vars

\* the chat with clients that send a content frame and close at once
NextBuffered ==
    \/ \E s \in Sessions : \E tok \in ValidTokens(s) : Handshake(s, tok, TRUE)
    \/ Lifecycle
    \/ \E s \in Talkers, alive \in BOOLEAN : RecvContent(s, Hello, alive, TRUE)
    \/ \E s \in Talkers : RecvBuffered(s, Hello, TRUE)
    \/ \E s \in Sessions : MessageBroadcast(s)

SpecBuffered == Init /\ [][NextBuffered]_vars

(***************************************************************************)
(* Properties.                                                             *)
(***************************************************************************)
SeqSet(q) == {q[i] : i \in 1..Len(q)}

Count(q, type) == Cardinality({i \in 1..Len(q) : q[i].type = type})

\* the client of t has been sent the frame
Got(t, frame) == frame \in SeqSet(outbox[t])

\* the for loop of s's broadcast is exhausted, its cleanup has not run yet
PassDone(s) == pc[s] = "bc" /\ bc[s].idx > Len(bc[s].list)

\* the handles that were registered when s's broadcast began
SnapshotHandles(s) == {e[1] : e \in SeqSet(bc[s].snapshot)}

\* C1: for every topic T, after N successful connect calls (one per session
\* whose `connected` is set) and M disconnect calls on a handle that was
\* registered, get_connected_users(T) has N - M entries and no handle twice,
\* whatever the interleaving of the session tasks.
C1_RegistryCount ==
    \A T \in Projects :
        LET N == Cardinality({s \in Sessions : connected[s] /\ project[s] = T})
            M == Cardinality({s \in Sessions : removed[s] # "no" /\ project[s] = T})
        IN /\ Len(GetConnectedUsers(active_connections, T)) = N - M
           /\ Cardinality(Handles(active_connections, T)) = N - M

C1_Witness ==
    \E T \in Projects :
        /\ Cardinality({s \in Sessions : connected[s] /\ project[s] = T}) = 2
        /\ Cardinality({s \in Sessions : removed[s] # "no" /\ project[s] = T}) = 1
        /\ Len(GetConnectedUsers(active_connections, T)) = 1

\* C2 (state part): when the fan-out pass of a broadcast is over, a send has
\* been attempted to every handle registered when it began, and every one
\* whose send did not raise has been sent the message.
C2_FanOutComplete ==
    \A s \in Sessions :
        PassDone(s) =>
            \A t \in SnapshotHandles(s) :
                /\ t \in SeqSet(bc[s].tried)
                /\ t \notin SeqSet(bc[s].disconnected) => Got(t, bc[s].msg)

\* C2 (step part): a handle leaves the registry only in its own session's
\* `finally` or in the cleanup that follows a finished fan-out pass in which
\* its send raised; and when a broadcast returns, no handle whose send
\* raised is registered.
C2_PruneAfterPass ==
    /\ \A t \in Sessions :
          (/\ t \in Handles(active_connections, project[t])
           /\ t \notin Handles(active_connections', project[t]))
          => \/ pc[t] = "finally" /\ pc'[t] # "finally"
             \/ \E s \in Sessions :
                   /\ PassDone(s) /\ pc'[s] # "bc"
                   /\ t \in SeqSet(bc[s].disconnected)
    /\ \A s \in Sessions :
          (pc[s] = "bc" /\ pc'[s] # "bc")
          => \A t \in SeqSet(bc[s].disconnected) :
                t \notin Handles(active_connections', bc[s].topic)

\* C2: a broadcast to K handles of which one raises delivers to the other
\* K - 1, and the failing handle is removed after the pass, not during it.
C2_Broadcast == []C2_FanOutComplete /\ [][C2_PruneAfterPass]_vars

\* two handles, the first one's send raised, the second one got the message
C2_Witness ==
    \E s \in Sessions :
        /\ PassDone(s)
        /\ Len(bc[s].snapshot) = 2
        /\ bc[s].disconnected = <<bc[s].snapshot[1][1]>>
        /\ Got(bc[s].snapshot[2][1], bc[s].msg)

\* C3 (state part): a session announces at most one user_left, only if it
\* had registered, and once it has, its handle is not registered; a session
\* that registered and has ended has announced exactly one.
C3_CleanupOnce ==
    \A s \in Sessions :
        /\ Count(calls[s], "user_left") <= 1
        /\ Count(calls[s], "user_left") = 1 =>
               connected[s] /\ s \notin Handles(active_connections, project[s])
        /\ pc[s] = "closed" /\ connected[s] => Count(calls[s], "user_left") = 1

\* C3 (step part): the cleanup of a registered session removes its handle
\* and broadcasts user_left with the subscriber list as it is after the
\* removal.
C3_CleanupStep ==
    \A s \in Sessions :
        (pc[s] = "finally" /\ connected[s] /\ pc'[s] # "finally")
        => /\ s \notin Handles(active_connections', project[s])
           /\ calls'[s] = Append(calls[s],
                 UserLeftFrame(user_id[s],
                               GetConnectedUsers(active_connections', project[s])))

\* C3: a registered session that ends runs the cleanup exactly once:
\* handle absent, one user_left with the post-removal online list.
C3_Cleanup == []C3_CleanupOnce /\ [][C3_CleanupStep]_vars

\* a session has ended whose handle a broadcast's cleanup had already removed
C3_Witness ==
    \E s \in Sessions :
        /\ pc[s] = "closed"
        /\ connected[s]
        /\ removed[s] = "pruned"
        /\ Count(calls[s], "user_left") = 1

\* the token's exp claim is past (it is otherwise well formed and signed)
Expired(tok) == tok.form /\ tok.sig /\ tok.exp

\* the session's client was sent exactly this frame and then the server
\* closed; or the client had gone and was sent nothing
RejectedWith(s, frame) ==
    /\ pc[s] = "closed"
    /\ \/ transport[s] = "server_closed" /\ outbox[s] = <<frame>>
       \/ transport[s] = "client_closed" /\ outbox[s] = <<>>

\* the session never registered and never broadcast
NeverRegistered(s) ==
    /\ ~connected[s]
    /\ removed[s] = "no"
    /\ calls[s] = <<>>
    /\ \A p \in Projects : s \notin Handles(active_connections, p)

\* C4 (state part): a session whose first frame carried an expired token
\* was sent the one "Invalid token" error frame and closed (nothing reaches
\* a client that has gone), its handle is not and never was registered, and
\* it broadcast no user_joined and no user_left.
C4_ExpiredRejected ==
    \A s \in Sessions :
        Expired(token[s]) => RejectedWith(s, ErrInvalidToken) /\ NeverRegistered(s)

\* C4 (step part): the step that handles a first frame with an expired
\* token leaves the registry, hence get_connected_users of every topic, as
\* it was.
C4_ExpiredStep ==
    \A s \in Sessions :
        (pc[s] = "accepted" /\ Expired(token'[s]))
        => /\ active_connections' = active_connections
           /\ \A p \in Projects : GetConnectedUsers(active_connections', p)
                                   = GetConnectedUsers(active_connections, p)

\* C4: an expired token yields one error frame, then close; no registration,
\* no user_joined or user_left, get_connected_users unchanged.
C4_Expired == []C4_ExpiredRejected /\ [][C4_ExpiredStep]_vars

\* an expired token was rejected while another session was registered
C4_Witness ==
    \E s \in Sessions, t \in Sessions :
        /\ Expired(token[s])
        /\ outbox[s] = <<ErrInvalidToken>>
        /\ transport[s] = "server_closed"
        /\ t \in Handles(active_connections, project[s])

\* the ways a token fails validation
FailureKind(tok) ==
    IF ~tok.form THEN "malformed"
    ELSE IF ~tok.sig THEN "signature"
    ELSE IF tok.exp THEN "expired"
    ELSE IF tok.sub = NoSub THEN "no_subject"
    ELSE IF tok.sub = BadSub THEN "bad_subject"
    ELSE "none"

\* the session presented a token that fails validation
PresentedInvalid(s) == token[s] \in Tokens /\ FailureKind(token[s]) # "none"

\* C5: every session whose token failed validation, whichever check failed,
\* was sent the same single "Invalid token" frame and closed; two such
\* sessions whose clients were still there cannot be told apart by what
\* they were sent.
C5_SameOutcome ==
    /\ \A s \in Sessions :
          PresentedInvalid(s) =>
              RejectedWith(s, ErrInvalidToken) /\ NeverRegistered(s)
    /\ \A s \in Sessions, t \in Sessions :
          (/\ PresentedInvalid(s) /\ PresentedInvalid(t)
           /\ transport[s] = transport[t])
          => outbox[s] = outbox[t] /\ pc[s] = pc[t]

\* a token without subject and a token with a bad signature, both answered
C5_Witness ==
    \E s \in Sessions, t \in Sessions :
        /\ FailureKind(token[s]) = "no_subject" /\ token[s] \in Tokens
        /\ FailureKind(token[t]) = "signature"
        /\ outbox[s] = <<ErrInvalidToken>>
        /\ outbox[t] = <<ErrInvalidToken>>

\* the registry entries of topic p
Entries(p) ==
    IF p \in DOMAIN active_connections THEN SeqSet(active_connections[p]) ELSE {}

\* C6: every handle registered under a project belongs to a session that
\* connected to that project, presented a valid token, is registered under
\* the token's subject, and was a member of the project when the handshake
\* looked; a session whose user was no member then was sent the "not a
\* member" error, was closed and never registered.
C6_MembersOnly ==
    /\ \A p \in Projects : \A e \in Entries(p) :
          /\ project[e[1]] = p
          /\ token[e[1]] \in Tokens /\ FailureKind(token[e[1]]) = "none"
          /\ token[e[1]].sub = e[2]
          /\ checked[e[1]] = "member"
    /\ \A s \in Sessions :
          checked[s] = "not_member" =>
              RejectedWith(s, ErrNotMember) /\ NeverRegistered(s)

\* u2, a member of p1 only, was turned away from p2 while a member of p2
\* is registered there
C6_Witness ==
    \E s \in Sessions :
        /\ checked[s] = "not_member"
        /\ project[s] = "p2"
        /\ <<"p1", token[s].sub>> \in members
        /\ outbox[s] = <<ErrNotMember>>
        /\ Entries("p1") # {}

\* C7 (state part): a session that has broadcast user_joined, or has got as
\* far as its read loop, registered first, was then sent the connected
\* frame as the first frame on its socket, and made user_joined its first
\* broadcast.
C7_OrderSoFar ==
    \A s \in Sessions :
        /\ pc[s] = "join" => connected[s] /\ calls[s] = <<>>
        /\ (Count(calls[s], "user_joined") > 0 \/ pc[s] \in {"loop", "msg_bc", "fault"})
           => /\ connected[s]
              /\ outbox[s] # <<>> /\ outbox[s][1] = ConnectedFrame(online_users[s])
              /\ user_id[s] \in SeqSet(online_users[s])
              /\ calls[s] # <<>>
              /\ calls[s][1] = UserJoinedFrame(user_id[s], online_users[s])
              /\ Count(calls[s], "user_joined") = 1

\* C7 (step part): the step after a successful membership check registers
\* the handle and, the client being there, sends the connected frame whose
\* online_users is the subscriber list as it is after the registration,
\* the caller included, without having broadcast anything; the user_joined
\* broadcast is the step of a registered session that follows.
C7_OrderStep ==
    \A s \in Sessions :
        /\ (pc[s] = "register" /\ pc'[s] # "register")
           => /\ s \in Handles(active_connections', project[s])
              /\ calls'[s] = calls[s]
              /\ pc'[s] = "join" =>
                    /\ outbox'[s] = Append(outbox[s], ConnectedFrame(
                           GetConnectedUsers(active_connections', project[s])))
                    /\ user_id[s] \in
                           SeqSet(GetConnectedUsers(active_connections', project[s]))
        /\ Count(calls'[s], "user_joined") > Count(calls[s], "user_joined")
           => pc[s] = "join" /\ connected[s] /\ Count(outbox[s], "connected") = 1

\* C7: register, then the connected frame with the current subscriber list,
\* then the user_joined broadcast.
C7_Order == []C7_OrderSoFar /\ [][C7_OrderStep]_vars

\* the second subscriber of a topic is in its loop: its connected frame
\* listed both, and the first subscriber was sent its user_joined
C7_Witness ==
    \E s \in Sessions, t \in Sessions :
        /\ s # t
        /\ pc[s] = "loop"
        /\ Len(online_users[s]) = 2
        /\ Got(t, UserJoinedFrame(user_id[s], online_users[s]))

\* C8: when the commit of an accepted content frame fails, the sender is
\* sent an error frame, nothing is broadcast or persisted, and the session
\* stays in its read loop with its handle still registered.
C8_PersistFailureStaysOpen ==
    [][\A s \in Sessions :
          (pc[s] = "fault" /\ pc'[s] # "fault")
          => /\ pc'[s] = "loop"
             /\ transport[s] = "open" =>
                   /\ Len(outbox'[s]) = Len(outbox[s]) + 1
                   /\ outbox'[s][Len(outbox'[s])].type = "error"
             /\ messages' = messages
             /\ calls' = calls
             /\ active_connections' = active_connections]_vars

\* the content of a persisted or broadcast message is, trimmed, between 1
\* and 5000 characters long
ValidContent(c) == len(strip(c)) >= 1 /\ len(strip(c)) <= MaxContentLen

\* C9: every message that is persisted or broadcast has content that is
\* non-empty after trimming and at most 5000 characters long.
C9_ContentValid ==
    /\ \A i \in 1..Len(messages) : ValidContent(messages[i].content)
    /\ \A s \in Sessions : \A i \in 1..Len(calls[s]) :
          calls[s][i].type = "message" => ValidContent(calls[s][i].content)

\* C10: a content frame of more than 5000 characters read from a client
\* that is still there is answered with the one "Message too long" frame
\* on the sender's socket and nothing else: no socket but the sender's is
\* sent anything, nothing is persisted or broadcast, the registry is as it
\* was, and the session is back in its read loop.
C10_TooLongRejected ==
    [][\A s \in Sessions, c \in Contents, commit_ok \in BOOLEAN :
          (len(c) > MaxContentLen /\ RecvContent(s, c, TRUE, commit_ok))
          => /\ outbox' = [outbox EXCEPT ![s] = Append(@, ErrTooLong)]
             /\ messages' = messages
             /\ calls' = calls
             /\ bc' = bc
             /\ active_connections' = active_connections
             /\ connected' = connected
             /\ transport' = transport
             /\ pc'[s] = "loop"]_vars

\* a registered sender was told its frame was too long; the other
\* subscriber was not, and nothing was persisted or broadcast as a message
C10_Witness ==
    \E s \in Sessions, t \in Sessions :
        /\ s # t
        /\ Got(s, ErrTooLong)
        /\ pc[s] = "loop"
        /\ {s, t} \subseteq Handles(active_connections, project[s])
        /\ ~Got(t, ErrTooLong)
        /\ messages = <<>>
        /\ Count(calls[s], "message") = 0

\* this step is an iteration of s's read loop whose wait_for gave `kind`
Reads(s, kind) ==
    /\ frames' = frames - 1
    /\ received'.session = s
    /\ received'.kind = kind

\* this step changes nothing but the frames sent to s's client
OnlyOutboxOf(s) ==
    /\ \A t \in Sessions \ {s} : outbox'[t] = outbox[t]
    /\ UNCHANGED <<project, dms, call, pages, dm_connections, dm_sessions, req, response, active_connections, members, messages, pc, connected,
                   user_id, online_users, transport, message, bc, token, checked,
                   removed, calls>>

\* C11: a ping frame read from a client that is still there is answered
\* with exactly one pong on that client's socket, and the step does nothing
\* else: no registry change, no row written, no frame to any other client,
\* no broadcast, the session back in its read loop.
C11_PingPong ==
    [][\A s \in Sessions :
          (Reads(s, "ping") /\ transport'[s] # "client_closed")
          => /\ outbox'[s] = Append(outbox[s], PongFrame)
             /\ OnlyOutboxOf(s)]_vars

\* two pings were read and two pongs sent, to a client that shares its
\* topic with another subscriber who was sent none
C11_Witness ==
    \E s \in Sessions, t \in Sessions :
        /\ s # t
        /\ frames = 0
        /\ Count(outbox[s], "pong") = 2
        /\ Count(outbox[s], "ping") = 0
        /\ t \in Handles(active_connections, project[s])
        /\ Count(outbox[t], "pong") = 0

\* C12 (step part): an idle timeout of a session whose client is still
\* there sends that client one ping and nothing else happens: the session
\* is back in its read loop and the registry is as it was.
C12_IdleStep ==
    \A s \in Sessions :
        (Reads(s, "timeout") /\ transport'[s] # "client_closed")
        => /\ outbox'[s] = Append(outbox[s], PingFrame)
           /\ OnlyOutboxOf(s)
           /\ pc'[s] = "loop"

\* C12 (state part): when clients only ping or stay silent, a registered
\* session whose client has not gone has not ended and its handle is
\* registered, however many idle timeouts it has had.
C12_StaysOpen ==
    \A s \in Sessions :
        (connected[s] /\ transport[s] # "client_closed")
        => /\ pc[s] \notin {"finally", "closed"}
           /\ s \in Handles(active_connections, project[s])

\* C12: an idle timeout sends a ping probe and closes nothing.
C12_IdleProbe == []C12_StaysOpen /\ [][C12_IdleStep]_vars

\* two idle timeouts in a row, no reply, and the session is still in its
\* read loop with its handle registered
C12_Witness ==
    \E s \in Sessions :
        /\ frames = 0
        /\ Count(outbox[s], "ping") = 2
        /\ Count(outbox[s], "pong") = 0
        /\ pc[s] = "loop"
        /\ transport[s] = "open"
        /\ s \in Handles(active_connections, project[s])

\* the handles of the entries of a registry list, in its order
HandleSeq(l) == [i \in 1..Len(l) |-> l[i][1]]

\* q is p, possibly followed by more
IsPrefix(p, q) == Len(p) <= Len(q) /\ SubSeq(q, 1, Len(p)) = p

\* C13: while a broadcast runs, the sends it has attempted are, in order,
\* the handles of the list it iterates up to its position, no handle twice,
\* and that list begins with the entries registered when it started: so
\* when the pass is over, every handle registered at the start has been
\* tried exactly once, in registry order, whatever was registered or
\* unregistered meanwhile.
C13_OncePerHandle ==
    \A s \in Sessions :
        pc[s] = "bc" =>
           /\ bc[s].tried = SubSeq(HandleSeq(bc[s].list), 1, bc[s].idx - 1)
           /\ \A i \in 1..Len(bc[s].tried), j \in 1..Len(bc[s].tried) :
                  bc[s].tried[i] = bc[s].tried[j] => i = j
           /\ IsPrefix(bc[s].snapshot, bc[s].list)
           /\ PassDone(s) => IsPrefix(HandleSeq(bc[s].snapshot), bc[s].tried)

\* a pass over two handles is over; the second one unregistered while the
\* fan-out was suspended and was tried all the same, after the first
C13_Witness ==
    \E s \in Sessions :
        /\ PassDone(s)
        /\ Len(bc[s].snapshot) = 2
        /\ bc[s].snapshot[2][1] \notin Handles(active_connections, bc[s].topic)
        /\ removed[bc[s].snapshot[2][1]] = "finally"
        /\ bc[s].tried = HandleSeq(bc[s].snapshot)

\* the rows of table T that a request for topic p with cursor b asks for:
\* those of p, sent strictly before row b when b is a row of T
Wanted(T, p, b) ==
    {i \in 1..Len(T) :
        /\ T[i].project_id = p
        /\ b \in 1..Len(T) => T[i].sent_at < T[b].sent_at}

\* the ids of the messages of a response
Returned200(r) == {r.rows[i].id : i \in 1..Len(r.rows)}

\* C14: a 200 response of get_messages holds at most `limit` messages, no
\* message twice, all of them messages of the topic sent strictly before
\* the cursor message (any message of the topic when the cursor is absent
\* or unknown); as many as the limit allows; none that was left out is
\* newer than one that was returned; and they are in ascending sent_at
\* order.
C14_NewestAscending ==
    response.status = 200 =>
       LET T == response.seen
           W == Wanted(T, response.project, response.before)
           rows == response.rows
       IN /\ Len(rows) <= response.limit
          /\ Cardinality(Returned200(response)) = Len(rows)
          /\ Returned200(response) \subseteq W
          /\ Len(rows) < response.limit => Returned200(response) = W
          /\ \A e \in W \ Returned200(response) : \A i \in 1..Len(rows) :
                T[e].sent_at <= rows[i].sent_at
          /\ \A i \in 1..Len(rows), j \in 1..Len(rows) :
                i < j => rows[i].sent_at <= rows[j].sent_at

\* three messages of a topic sent at three times, read with the newest as
\* cursor: the two older ones come back, the older first
C14_Witness ==
    /\ response.status = 200
    /\ Len(response.seen) = 3
    /\ response.before = 3
    /\ response.limit = 2
    /\ Len(response.rows) = 2
    /\ response.rows[1].id = 1 /\ response.rows[2].id = 2
    /\ response.rows[1].sent_at < response.rows[2].sent_at
    /\ response.rows[2].sent_at < response.seen[3].sent_at

\* C15: a get_messages call that repeats the last one, with no row written
\* or deleted since, returns the same list.
C15_Idempotent ==
    [][(/\ response.status = 200 /\ response'.status = 200
        /\ response'.user = response.user
        /\ response'.project = response.project
        /\ response'.limit = response.limit
        /\ response'.before = response.before
        /\ response.seen = messages /\ response'.seen = messages)
       => response'.rows = response.rows]_vars

\* C19: every get_messages call looks the caller's membership up as it is
\* at that call: a member gets 200, anyone else 403 and no messages.
C19_CheckedPerCall ==
    [][response' # response =>
          IF <<response'.project, response'.user>> \in members
          THEN response'.status = 200
          ELSE response'.status = 403 /\ response'.rows = <<>>]_vars

\* u2, whose membership of p1 has been deleted, is refused the messages of
\* p1
C19_Witness ==
    /\ response.status = 403
    /\ response.user = "u2" /\ response.project = "p1"
    /\ <<"p1", "u2">> \in InitMembers \ members
    /\ \E i \in 1..Len(messages) : messages[i].project_id = "p1"

\* the last frame read was a content frame of session s that was accepted,
\* its row is the newest of the table and has not been deleted, and the
\* history of s's topic has been read since
ReadBack(s) ==
    /\ received.session = s /\ received.kind = "content"
    /\ ~falsy(received.content) /\ ~too_long(received.content)
    /\ message[s] = Len(messages) /\ message[s] > 0
    /\ ~messages[message[s]].is_deleted
    /\ response.status = 200
    /\ response.project = project_id(s)
    /\ response.limit >= Len(messages)
    /\ response.seen = messages

\* the response holds the row of s's last frame with content c, not deleted
\* and with an id above the ids of the earlier rows
RoundTrip(s, c) ==
    \E j \in 1..Len(response.rows) :
        /\ response.rows[j].id = messages[message[s]].id
        /\ response.rows[j].content = c
        /\ ~response.rows[j].is_deleted
        /\ \A i \in 1..(message[s] - 1) : response.rows[j].id > messages[i].id

DeletedSince(T, U) ==
    /\ Len(U) = Len(T)
    /\ \A i \in 1..Len(T) :
          U[i] = T[i] \/ (~T[i].is_deleted /\ U[i] = [T[i] EXCEPT !.is_deleted = TRUE])

\* response r shows every deleted row it returns with the marker and the
\* flag, every other row with its content, all with their id and sent_at
Redacted(r) ==
    \A j \in 1..Len(r.rows) : \E i \in 1..Len(r.seen) :
        /\ r.rows[j].id = r.seen[i].id
        /\ r.rows[j].sent_at = r.seen[i].sent_at
        /\ r.rows[j].is_deleted = r.seen[i].is_deleted
        /\ r.rows[j].content =
              IF r.seen[i].is_deleted THEN Marker ELSE r.seen[i].content

\* this step is a get_messages call that repeats the last one after
\* messages were deleted and none was added
ReadsAgain ==
    /\ response.status = 200 /\ response'.status = 200
    /\ response'.project = response.project
    /\ response'.limit = response.limit
    /\ response'.before = response.before
    /\ DeletedSince(response.seen, response'.seen)
    /\ response'.seen # response.seen

\* C17: after messages were deleted, get_messages returns the same messages
\* at the same positions of the list, with the same ids and sent-times; a
\* deleted one has the redaction marker as content and is_deleted true, the
\* others are returned unchanged.
C17_RedactedInPlace ==
    [][ReadsAgain =>
          /\ Len(response'.rows) = Len(response.rows)
          /\ \A j \in 1..Len(response.rows) :
                /\ response'.rows[j].id = response.rows[j].id
                /\ response'.rows[j].sent_at = response.rows[j].sent_at
                /\ response'.seen[response.rows[j].id] = response.seen[response.rows[j].id]
                      => response'.rows[j] = response.rows[j]
          /\ Redacted(response')]_vars

\* the message_deleted broadcasts made so far for message id
DeletedEvents(id) ==
    UNION {{<<t, k>> : k \in {i \in 1..Len(calls[t]) :
                                /\ calls[t][i].type = "message_deleted"
                                /\ calls[t][i].id = id}} : t \in Tasks}

\* user u may delete message id of table T
Deletable(T, u, id) ==
    id \in 1..Len(T) /\ T[id].sender_id = u /\ ~T[id].is_deleted

\* this step ends delete request r with a rejection
Rejects(r) ==
    pc[r] = "idle" /\ pc'[r] = "done" /\ req'[r].status \in {400, 403, 404}

\* this step is the commit of delete request r
Deletes(r) == pc[r] = "commit" /\ pc'[r] # "commit"

\* C18: a delete request is carried out only for the sender of a message
\* that is not yet deleted: it sets the flag and broadcasts one
\* message_deleted event; every other request is rejected, changes nothing
\* and broadcasts nothing; and whatever the order and interleaving of the
\* requests, at most one message_deleted event is broadcast per message.
C18_DeletedOnce ==
    /\ [][\A r \in Requests :
            /\ Rejects(r) =>
                  /\ ~Deletable(messages, req'[r].user, req'[r].id)
                  /\ UNCHANGED <<messages, calls, outbox>>
            /\ (pc[r] = "idle" /\ pc'[r] = "commit") =>
                  Deletable(messages, req'[r].user, req'[r].id)
            /\ Deletes(r) =>
                  /\ messages'[req[r].id].is_deleted
                  /\ calls'[r] = Append(calls[r], MessageDeletedFrame(req[r].id))]_vars
    /\ [](\A id \in 1..Len(messages) : Cardinality(DeletedEvents(id)) <= 1)

\* C20: once a direct message has a read_at, no step changes it: it is not
\* cleared, not overwritten and not moved earlier, however the
\* mark_messages_as_read requests interleave.
C20_ReadAtOnce ==
    [][\A i \in 1..Len(dms) :
          dms[i].read_at # 0 => dms'[i].read_at = dms[i].read_at]_vars

\* the session is registered and its own socket is still usable
Authenticated(s) == connected[s] /\ pc[s] \in {"join", "bc", "loop", "msg_bc"}

\* C21: every accepted connection eventually is Authenticated or closed
\* (its handshake does not wait forever), and a wait for the first frame
\* that ends in a close (the timeout among them) registers nothing and
\* broadcasts nothing.
C21_HandshakeEnds ==
    /\ \A s \in Sessions :
          (pc[s] = "accepted") ~> (connected[s] \/ pc[s] = "closed")
    /\ [][\A s \in Sessions :
            (pc[s] = "accepted" /\ pc'[s] = "closed") =>
                /\ ~connected'[s]
                /\ UNCHANGED <<active_connections, calls, bc>>]_vars
    /\ [](\A s \in Sessions :
            RejectedWith(s, ErrTimeout) /\ outbox[s] # <<>> => NeverRegistered(s))

\* a session was closed by the timeout while the other was registered
C21_Witness ==
    \E s \in Sessions, t \in Sessions :
        /\ pc[s] = "closed"
        /\ outbox[s] = <<ErrTimeout>>
        /\ transport[s] = "server_closed"
        /\ token[s] = NoToken
        /\ Authenticated(t)

\* C22: a broadcast sends only to the handles that were registered under
\* the topic when it started: a handle registered during the fan-out is
\* not sent that broadcast's message.
C22_Snapshot ==
    \A t \in Tasks :
        bc[t].run => SeqSet(bc[t].tried) \subseteq SnapshotHandles(t)

\* the broadcasts of message events made so far for the record id
MessageEvents(id) ==
    UNION {{<<t, k>> : k \in {i \in 1..Len(calls[t]) :
                                /\ calls[t][i].type = "message"
                                /\ calls[t][i].id = id}} : t \in Tasks}

\* the sessions that have committed record id and not yet broadcast it
Pending(id) == {s \in Sessions : pc[s] = "msg_bc" /\ message[s] = id}

\* C23 (state part): every message event sent to a client is the event of
\* a stored record, and every stored record has been broadcast exactly
\* once, or not yet while its session is between commit and broadcast.
C23_OneRecordOneBroadcast ==
    /\ \A s \in Sessions : \A i \in 1..Len(outbox[s]) :
          outbox[s][i].type = "message" =>
             /\ outbox[s][i].id \in 1..Len(messages)
             /\ outbox[s][i] = MessageFrame(messages[outbox[s][i].id])
    /\ \A id \in 1..Len(messages) :
          Cardinality(MessageEvents(id)) + Cardinality(Pending(id)) = 1

\* C23 (step part): the record of a message event is in the store before
\* the step that starts its broadcast, and a content frame that passes
\* validation stores exactly one record, or none when its commit fails.
C23_CommitFirst ==
    /\ \A t \in Tasks :
          (Len(calls'[t]) > Len(calls[t]) /\ calls'[t][Len(calls'[t])].type = "message")
          => /\ calls'[t][Len(calls'[t])].id \in 1..Len(messages)
             /\ messages' = messages
    /\ \A s \in Sessions :
          (Reads(s, "content") /\ ~falsy(received'.content) /\ ~too_long(received'.content))
          => \/ /\ Len(messages') = Len(messages) + 1
                /\ pc'[s] = "msg_bc" /\ message'[s] = Len(messages')
             \/ /\ messages' = messages
                /\ pc'[s] = "fault"
    /\ Len(messages') > Len(messages) =>
          \E s \in Sessions : Reads(s, "content") /\ Len(messages') = Len(messages) + 1

Broadcasted(s, id) ==
    \E i \in 1..Len(calls[s]) : calls[s][i].type = "message" /\ calls[s][i].id = id

\* C24 (step part): when a session reads a frame, the record of its
\* previous content frame is stored and that record's broadcast has been
\* made and has returned.
C24_ReadAfterFanOut ==
    \A s \in Sessions :
        Reads(s, "content") =>
            /\ ~bc[s].run
            /\ message[s] # 0 =>
                  /\ message[s] \in 1..Len(messages)
                  /\ Broadcasted(s, message[s])
            /\ message'[s] # message[s] => message'[s] > message[s]

\* C24 (state part): every client is sent the message events of the one
\* talking session in the order of their frames.
C24_InOrder ==
    \A t \in Sessions : \A i \in 1..Len(outbox[t]), j \in 1..Len(outbox[t]) :
        (i < j /\ outbox[t][i].type = "message" /\ outbox[t][j].type = "message")
        => outbox[t][i].id < outbox[t][j].id

\* C24: the frames of one connection are handled in arrival order, each
\* persisted and fanned out before the next is read, so that a subscriber
\* that is sent both messages is sent the first before the second.
C24_ArrivalOrder == []C24_InOrder /\ [][C24_ReadAfterFanOut]_vars

\* the listening session was sent both messages, the first one first
C24_Witness ==
    \E i \in 1..Len(outbox["s2"]), j \in 1..Len(outbox["s2"]) :
        /\ i < j
        /\ outbox["s2"][i].type = "message" /\ outbox["s2"][i].id = 1
        /\ outbox["s2"][j].type = "message" /\ outbox["s2"][j].id = 2

\* the sockets registered for direct messages to user u
DMHandles(ac, u) == IF u \in DOMAIN ac THEN SeqSet(ac[u]) ELSE {}

\* C25 (state part): no key of the project registry and no key of the
\* direct message registry maps to an empty list.
C25_NoEmptyList ==
    /\ \A p \in DOMAIN active_connections : active_connections[p] # <<>>
    /\ \A u \in DOMAIN dm_connections : dm_connections[u] # <<>>

\* C25 (step part): a registration leaves the handle under its key, which
\* exists from then on; a key disappears only in a step that takes a
\* handle out of its list.
C25_CreatedAndDeleted ==
    /\ \A s \in Sessions :
          (pc[s] = "register" /\ pc'[s] # "register")
          => s \in Handles(active_connections', project[s])
    /\ \A d \in DMSockets :
          (dm_sessions[d].pc = "connect" /\ dm_sessions'[d].pc # "connect")
          => d \in DMHandles(dm_connections', dm_sessions[d].user_id)
    /\ \A p \in DOMAIN active_connections \ DOMAIN active_connections' :
          Handles(active_connections, p) # {}
    /\ \A u \in DOMAIN dm_connections \ DOMAIN dm_connections' :
          DMHandles(dm_connections, u) # {}

\* C25: in both registries a topic entry exists exactly while it has
\* handles: created by the first registration, deleted with the last
\* handle, never left empty.
C25_NoEmptyTopic == []C25_NoEmptyList /\ [][C25_CreatedAndDeleted]_vars

\* the last handle of a direct message key was pruned after a failed send
\* while its session was still in its loop, one socket of two of a user
\* was unregistered, and the project topic was deleted with its one handle
C25_Witness ==
    /\ \E d \in DMSockets :
          /\ dm_sessions[d].connected /\ dm_sessions[d].pc = "loop"
          /\ dm_sessions[d].user_id \notin DOMAIN dm_connections
    /\ \E d \in DMSockets :
          /\ dm_sessions[d].connected /\ dm_sessions[d].pc = "closed"
    /\ \E s \in Sessions :
          connected[s] /\ pc[s] = "closed" /\ DOMAIN active_connections = {}

\* the read loop of s is running: s waits for a frame or handles one
InLoop(s) ==
    \/ pc[s] \in {"loop", "msg_bc"}
    \/ pc[s] = "bc" /\ bc[s].cont = "loop"

\* s is registered under its topic: it is in get_connected_users and a
\* broadcast that starts now sends to it
Registered(s) ==
    /\ s \in Handles(active_connections, project[s])
    /\ \E i \in 1..Len(GetConnectedUsers(active_connections, project[s])) :
          GetConnectedUsers(active_connections, project[s])[i] = user_id[s]

\* this step stores a message of session s
Posts(s) == Reads(s, "content") /\ Len(messages') > Len(messages)

\* C26 as stated: a session whose read loop is running and that can still
\* post is registered under its topic: whenever a session posts, its
\* handle is in the registry.
C26_PostsWhileRegistered ==
    [][\A s \in Sessions : Posts(s) => Registered(s)]_vars

\* C26 amended: a session whose read loop is running and whose connection
\* is open is registered under its topic.
C26_OpenAndRegistered ==
    \A s \in Sessions : (InLoop(s) /\ transport[s] = "open") => Registered(s)

\* a session posts over an open connection after the other session, whose
\* client has gone, was pruned and has unwound
C26_Witness ==
    /\ pc["s1"] = "msg_bc" /\ transport["s1"] = "open" /\ Registered("s1")
    /\ removed["s2"] = "pruned" /\ pc["s2"] = "closed"

\* C27: a session broadcasts user_left only after it has broadcast
\* user_joined; a session whose `connected` send failed announces no leave.
C27_LeftAfterJoined ==
    \A s \in Sessions : \A i \in 1..Len(calls[s]) :
        calls[s][i].type = "user_left" =>
            \E j \in 1..(i - 1) : calls[s][j].type = "user_joined"

\* this step starts a broadcast of s, and the event is `type`
Announces(s, type) ==
    /\ Len(calls'[s]) = Len(calls[s]) + 1
    /\ calls'[s][Len(calls'[s])].type = type

\* C28: the online_users list of every user_joined and user_left event is the
\* topic's subscriber list of the registry when the event's broadcast starts.
C28_OnlineListCurrent ==
    [][\A s \in Sessions : \A type \in {"user_joined", "user_left"} :
          Announces(s, type) =>
              calls'[s][Len(calls'[s])].online =
                  GetConnectedUsers(active_connections', project_id(s))]_vars

\* the pages in one list, in the order the client was given them
RECURSIVE Flat(_)
Flat(ps) == IF ps = <<>> THEN <<>> ELSE Head(ps) \o Flat(Tail(ps))

\* the client has paged to the end: the last page was empty
PagedThrough == pages # <<>> /\ pages[Len(pages)] = <<>>

\* C29: paging backward from the newest page, each time with before_id = the
\* oldest message of the previous page, gives every message of the topic
\* exactly once, messages of equal sent_at included.
C29_EveryMessageOnce ==
    PagedThrough =>
        \A i \in 1..Len(messages) :
            messages[i].project_id = response.project =>
                Cardinality({k \in 1..Len(Flat(pages)) : Flat(pages)[k] = i}) = 1

\* the list of a key of a dict, empty when the key is absent
ListOf(d, k) == IF k \in DOMAIN d THEN d[k] ELSE <<>>

\* the positions of l whose entry is given by the entry of ws in `at`
Hits(at, ws) == {i \in DOMAIN at : at[i] = ws}

\* list `after` is list `before` without the entries of ws (before[i] is the
\* entry of handle at[i]): every other entry is kept, in the same order
Without(before, at, ws, after) ==
    /\ Len(after) = Len(before) - Cardinality(Hits(at, ws))
    /\ \A i \in DOMAIN before \ Hits(at, ws) :
          after[i - Cardinality({j \in Hits(at, ws) : j < i})] = before[i]

\* from dict d to dict e, nothing but the list of key k has changed, which
\* has lost the entries of ws; a key is in e iff its list is not empty
OnlyRemoved(d, e, k, at, ws) ==
    /\ \A q \in (DOMAIN d \cup DOMAIN e) \ {k} :
          q \in DOMAIN d /\ q \in DOMAIN e /\ e[q] = d[q]
    /\ Without(ListOf(d, k), at, ws, ListOf(e, k))
    /\ k \in DOMAIN e <=> ListOf(e, k) # <<>>
    /\ Hits(at, ws) = {} => e = d

\* C30: disconnect(topic, handle) of either manager removes the handle and
\* nothing else: the other handles of the topic, other connections of the
\* same user among them, stay in their order, every other topic and the
\* other manager are as before, and when the handle or the topic is not
\* registered the dict is as before.
C30_RemovesOnlyTheHandle ==
    [][call'.op = "disconnect" =>
         IF call'.manager = "manager"
         THEN /\ OnlyRemoved(active_connections, active_connections',
                             call'.key,
                             [i \in DOMAIN ListOf(active_connections, call'.key) |->
                                 active_connections[call'.key][i][1]],
                             call'.ws)
              /\ dm_connections' = dm_connections
         ELSE /\ OnlyRemoved(dm_connections, dm_connections', call'.key,
                             ListOf(dm_connections, call'.key), call'.ws)
              /\ active_connections' = active_connections]_vars

\* websocket 2 has been removed from p1, where two other connections of u1
\* are still listed in the order they were made
C30_Witness ==
    /\ call = Call("manager", "disconnect", "p1", 2)
    /\ "p1" \in DOMAIN active_connections
    /\ active_connections["p1"] = <<<<1, "u1">>, <<3, "u1">>>>

====
